---- MODULE Spec2Model ----
(***************************************************************************)
(* A model of the pricing / bill-of-materials engine of justframeit:       *)
(*   - generate_product_reference          (src/justframeit.py)            *)
(*   - build_duration_lookup, lookup_service_duration(_fast),              *)
(*     compute_price, compute_prices_vectorized (src/price_export_v2.py)   *)
(*   - create_product_and_bom              (src/justframeit.py)            *)
(*   - process_order_line_parallel, handle_odoo_order (src/justframeit.py) *)
(*                                                                         *)
(* Each subsystem has its own specification (SpecRef, SpecPrice, SpecBom,  *)
(* SpecOrder) over the one tuple of variables; a specification leaves the  *)
(* variables of the other subsystems at their idle values.                 *)
(*                                                                         *)
(* Real numbers (metres, square metres, currency, margins) are            *)
(* fixed-point integers in hundredths: 0.16 m2 is 16, a quantity of 1 is   *)
(* 100, a margin of 0.5 is 50.  Durations are whole seconds.               *)
(***************************************************************************)
EXTENDS Integers, Sequences, FiniteSets, TLC

(***************************************************************************)
(* Bounds of the model.                                                    *)
(***************************************************************************)
NThreads == 2
MaxCalls == 2
MaxClock == 3
MaxRules == 3
MaxComponents == 2
MaxLines == 2
MaxPasses == 3
MaxDimCalls == 2
MaxPricelists == 2
MaxExportProducts == 2
MaxRoutePricelists == 7

VARIABLES
    \* ---- generate_product_reference (module globals and per-thread locals)
    reference_counter,      \* _reference_counter
    reference_counter_lock, \* _reference_counter_lock: 0 = free, else the holder
    clock,                  \* int(time.time() * 1000000), the wall clock
    refPc,                  \* per thread: position in generate_product_reference
    counter_value,          \* per thread: the local counter_value
    timestamp,              \* per thread: the local timestamp
    calls,                  \* per thread: calls started so far
    generated,              \* every reference returned so far: <<thread, reference>>
    \* ---- price computation (price_export_v2.py)
    duration_rules,         \* the duration rule records read from the catalog
    product,                \* the product record being priced
    dimensions,             \* the ordered dimension tuples
    margin,                 \* the margin of the price list, in hundredths
    pricePc,                \* position in the pricing run
    duration_lookup,        \* the result of build_duration_lookup
    query,                  \* <<service_name, quantity_threshold>> of a lookup
    fast_result,            \* result of lookup_service_duration_fast
    scan_result,            \* result of lookup_service_duration
    vector_prices,          \* result of compute_prices_vectorized, in cents
    scalar_prices,          \* results of compute_price per dimension, in cents
    \* ---- create_product_and_bom (justframeit.py)
    components,             \* argument: the requested components
    width,                  \* argument: width in mm
    height,                 \* argument: height in mm
    original_template_name, \* argument: FalseVal or the original name
    bomPc,                  \* position in create_product_and_bom
    bomIndex,               \* components the loop has been through
    components_by_ref,      \* batched component records by reference
    service_ids,            \* service ids collected from the batch
    duration_rule_ids,      \* duration rule ids collected from the batch
    services_by_id,         \* batched service records
    duration_rules_by_id,   \* batched duration rule records
    bom_components,         \* BOM lines built so far
    bom_operations,         \* operations built so far
    skipped_components,     \* skipped entries built so far
    bomCalls,               \* remote calls issued, by kind
    odooProducts,           \* catalog: products created by this call
    odooBoms,               \* catalog: BOMs created by this call
    bomReturn,              \* the returned tuple, << >> before the return
    \* ---- handle_odoo_order / process_order_line_parallel (justframeit.py)
    order_lines,            \* catalog: the sale.order.line records of the order
    order_lines_by_id,      \* the order lines as prefetched, by id
    mainPc,                 \* position of the request thread
    bom_by_product,         \* prefetched BOMs by product id
    bom_by_template,        \* prefetched BOMs by template id
    linePc,                 \* per line index: position of its worker
    lineLocals,             \* per line index: the worker's locals
    lineRaised,             \* per line index: the exception raised, or NoException
    lineReturns,            \* per line index: the (result, logs) tuples returned
    line_log_buffer,        \* per line index: the records of its own logger
    parallel_results,       \* per line index: None or the collected tuple
    processed_lines,        \* the results appended by the sequential loop
    request_log,            \* the records of the shared logger, in order
    response,               \* the HTTP response, NoResponse before the return
    \* ---- the name recovery of process_order_line_parallel, on its own
    recoverPc,              \* "read" before lines 352-375 ran, "done" after
    recover_input,          \* the product name, its description_sale, the line's name
    recover_output,         \* the original name and where it came from
    \* ---- handle_odoo_order called again and again for an order of one line
    rep_product,            \* catalog: the product the order line points at, as read
    rep_line_name,          \* catalog: the description ('name') of the order line
    rep_references,         \* catalog: the component codes of that product's BOM
    rep_names,              \* the original_product_name of each request so far
    \* ---- get_dimensions_from_config, generate_csv_direct (price_export_v2.py)
    x_configuration,        \* catalog: the ids of x_configuration and the field of the first
    dimension_results,      \* what each call of get_dimensions_from_config returned
    exportPc,               \* position of generate_csv_direct
    export_products,        \* catalog: the products with a price computation
    all_pricelists,         \* catalog: the product.pricelist records
    pricelists,             \* the pricelists left after the filter
    export_dimensions,      \* the dimensions of the run
    dimension_labels,       \* their labels
    export_margins,         \* the margin of each pricelist handled so far
    csv_results,            \* the (rows, pl_name, csv_filename) tuples so far
    export_return,          \* what the call returned or raised
    \* ---- process_pricelist_for_parallel (legacy path)
    retryPc,                \* position of the worker function
    retry_input,            \* pricelist_name, pricelist_row; what the calls it makes will do
    attempt,                \* the loop variable of the retry loop
    generate_calls,         \* invocations of generate_price_export_excel so far
    sleeps,                 \* time.sleep(1) calls so far
    worker_return,          \* what the worker returned or raised
    \* ---- generate_price_export (route /generate-price-export-v2)
    routePc,                \* position of the route
    route_catalog,          \* catalog: pricelists and x_configuration ids of the request
    all_pricelist_csvs,     \* what generate_csv_direct returned
    update_vals,            \* the values of the x_configuration write
    additional_csv_info,    \* the entries reported as additional_csvs
    config_fields,          \* the fields written to the x_configuration record
    attachment_names,       \* names of the ir.attachment records created
    route_response          \* the response of the route

refVars == << reference_counter, reference_counter_lock, clock, refPc,
              counter_value, timestamp, calls, generated >>

priceVars == << duration_rules, product, dimensions, margin, pricePc,
                duration_lookup, query, fast_result, scan_result,
                vector_prices, scalar_prices >>

bomVars == << components, width, height, original_template_name, bomPc, bomIndex,
              components_by_ref, service_ids, duration_rule_ids,
              services_by_id, duration_rules_by_id, bom_components,
              bom_operations, skipped_components, bomCalls, odooProducts,
              odooBoms, bomReturn >>

orderVars == << order_lines, order_lines_by_id, mainPc, bom_by_product, bom_by_template, linePc,
                lineLocals, lineRaised, lineReturns, line_log_buffer,
                parallel_results, processed_lines, request_log, response >>

recoverVars == << recoverPc, recover_input, recover_output >>

reprocessVars == << rep_product, rep_line_name, rep_references, rep_names >>

exportVars == << x_configuration, dimension_results, exportPc, export_products,
                 all_pricelists, pricelists, export_dimensions, dimension_labels,
                 export_margins, csv_results, export_return >>

retryVars == << retryPc, retry_input, attempt, generate_calls, sleeps, worker_return >>

routeVars == << routePc, route_catalog, all_pricelist_csvs, update_vals,
                additional_csv_info, config_fields, attachment_names, route_response >>

vars == << refVars, priceVars, bomVars, orderVars, recoverVars, reprocessVars,
           exportVars, retryVars, routeVars >>

notRefVars == << priceVars, bomVars, orderVars, recoverVars, reprocessVars, exportVars,
                 retryVars, routeVars >>
notPriceVars == << refVars, bomVars, orderVars, recoverVars, reprocessVars, exportVars,
                 retryVars, routeVars >>
notBomVars == << refVars, priceVars, orderVars, recoverVars, reprocessVars, exportVars,
                 retryVars, routeVars >>

Threads == 1..NThreads

(***************************************************************************)
(* generate_product_reference                                              *)
(***************************************************************************)
BASE36_CHARS ==
    << "0", "1", "2", "3", "4", "5", "6", "7", "8", "9", "A", "B", "C", "D",
       "E", "F", "G", "H", "I", "J", "K", "L", "M", "N", "O", "P", "Q", "R",
       "S", "T", "U", "V", "W", "X", "Y", "Z" >>

\* the while loop of lines 106-110: prepend the digit of num % 36, num //= 36
RECURSIVE Base36Loop(_, _)
Base36Loop(num, reference) ==
    IF num > 0
    THEN Base36Loop(num \div 36, << BASE36_CHARS[(num % 36) + 1] >> \o reference)
    ELSE reference

Base36(ts) == IF ts = 0 THEN << "0" >> ELSE Base36Loop(ts, << >>)

\* the wall clock at module load: any value; two starts are enough to make
\* one- and two-digit references
ClockStart == {0, 34}

\* outside a reference-generator run: no thread ever calls
InitRefIdle ==
    /\ reference_counter = 0
    /\ reference_counter_lock = 0
    /\ clock = 0
    /\ refPc = [t \in Threads |-> "idle"]
    /\ counter_value = [t \in Threads |-> 0]
    /\ timestamp = [t \in Threads |-> 0]
    /\ calls = [t \in Threads |-> 0]
    /\ generated = << >>

InitRefVars ==
    /\ reference_counter = 0
    /\ reference_counter_lock = 0
    /\ clock \in ClockStart
    /\ refPc = [t \in Threads |-> "idle"]
    /\ counter_value = [t \in Threads |-> 0]
    /\ timestamp = [t \in Threads |-> 0]
    /\ calls = [t \in Threads |-> 0]
    /\ generated = << >>

\* a thread calls generate_product_reference
RefCall(t) ==
    /\ refPc[t] = "idle"
    /\ calls[t] < MaxCalls
    /\ calls' = [calls EXCEPT ![t] = @ + 1]
    /\ refPc' = [refPc EXCEPT ![t] = "acquire"]
    /\ UNCHANGED << reference_counter, reference_counter_lock, clock,
                    counter_value, timestamp, generated >>
    /\ UNCHANGED notRefVars

\* with _reference_counter_lock:
RefAcquire(t) ==
    /\ refPc[t] = "acquire"
    /\ reference_counter_lock = 0
    /\ reference_counter_lock' = t
    /\ refPc' = [refPc EXCEPT ![t] = "locked"]
    /\ UNCHANGED << reference_counter, clock, counter_value, timestamp,
                    calls, generated >>
    /\ UNCHANGED notRefVars

\* _reference_counter += 1; counter_value = _reference_counter; leave the block
RefIncrement(t) ==
    /\ refPc[t] = "locked"
    /\ reference_counter_lock = t
    /\ reference_counter' = reference_counter + 1
    /\ counter_value' = [counter_value EXCEPT ![t] = reference_counter + 1]
    /\ reference_counter_lock' = 0
    /\ refPc' = [refPc EXCEPT ![t] = "clock"]
    /\ UNCHANGED << clock, timestamp, calls, generated >>
    /\ UNCHANGED notRefVars

\* timestamp = int(time.time() * 1000000) + counter_value   (outside the lock)
RefReadClock(t) ==
    /\ refPc[t] = "clock"
    /\ timestamp' = [timestamp EXCEPT ![t] = clock + counter_value[t]]
    /\ refPc' = [refPc EXCEPT ![t] = "encode"]
    /\ UNCHANGED << reference_counter, reference_counter_lock, clock,
                    counter_value, calls, generated >>
    /\ UNCHANGED notRefVars

\* the base-36 conversion and the return
RefReturn(t) ==
    /\ refPc[t] = "encode"
    /\ generated' = Append(generated, << t, Base36(timestamp[t]) >>)
    /\ refPc' = [refPc EXCEPT ![t] = "idle"]
    /\ UNCHANGED << reference_counter, reference_counter_lock, clock,
                    counter_value, timestamp, calls >>
    /\ UNCHANGED notRefVars

\* the wall clock advances by one microsecond
ClockTick ==
    /\ \E c0 \in ClockStart : clock < c0 + MaxClock /\ clock >= c0
    /\ clock' = clock + 1
    /\ UNCHANGED << reference_counter, reference_counter_lock, refPc,
                    counter_value, timestamp, calls, generated >>
    /\ UNCHANGED notRefVars


(***************************************************************************)
(* Catalog field values.  A field read from the catalog is False (empty),  *)
(* a number, a plain string, or a list [id, label] (a many2one).           *)
(***************************************************************************)
FalseVal == [tag |-> "false"]
Num(n) == [tag |-> "num", n |-> n]
Str(s) == [tag |-> "str", s |-> s]
Many2one(id, label) == [tag |-> "list", items |-> << id, label >>]

\* Python's `x or 0` on a numeric field
OrZero(v) == IF v.tag = "num" THEN v.n ELSE 0

\* get_service_name: the label of a list value, the string itself, '' if empty
get_service_name(service_value) ==
    IF service_value.tag = "list"
    THEN IF Len(service_value.items) > 1 THEN service_value.items[2]
         ELSE IF Len(service_value.items) = 1 THEN service_value.items[1]
         ELSE ""
    ELSE IF service_value.tag = "str" THEN service_value.s
    ELSE ""

(***************************************************************************)
(* Exact rational arithmetic for the float expressions of the price        *)
(* formula; a rational is [n, d] in lowest terms with d > 0.               *)
(***************************************************************************)
RECURSIVE Gcd(_, _)
Gcd(a, b) == IF b = 0 THEN a ELSE Gcd(b, a % b)

Abs(x) == IF x < 0 THEN -x ELSE x

Rat(n, d) ==
    LET g == Gcd(Abs(n), d)
    IN  IF n = 0 THEN [n |-> 0, d |-> 1] ELSE [n |-> n \div g, d |-> d \div g]

RatAdd(a, b) == Rat(a.n * b.d + b.n * a.d, a.d * b.d)
RatMul(a, b) == Rat(a.n * b.n, a.d * b.d)

\* round(x, 2), as cents: to the nearest cent, a tie to the even cent
Round2(x) ==
    LET c == Rat(x.n * 100, x.d)
        lo == c.n \div c.d
        twice == 2 * (c.n - lo * c.d)
    IN  IF twice < c.d THEN lo
        ELSE IF twice > c.d THEN lo + 1
        ELSE IF lo % 2 = 0 THEN lo ELSE lo + 1

(***************************************************************************)
(* Dimensions: (width_mm, height_mm, width_cm, height_cm, surface_m2,      *)
(* circumference_m); width_cm and height_cm in tenths of a centimetre,     *)
(* surface and circumference in hundredths (exact for widths and heights   *)
(* that are multiples of 100 mm).                                          *)
(***************************************************************************)
Dimension(width_mm, height_mm) ==
    << width_mm, height_mm, width_mm, height_mm,
       (width_mm * height_mm) \div 10000, (2 * (width_mm + height_mm)) \div 10 >>

(***************************************************************************)
(* build_duration_lookup                                                   *)
(***************************************************************************)
\* lines 310-318: one rule folded into the lookup
AddRule(lookup, service_name, qty, duration) ==
    LET withEntry ==
            IF service_name \in DOMAIN lookup THEN lookup
            ELSE lookup @@ (service_name :>
                    [rules |-> << >>, max_duration |-> 0, max_qty |-> 0])
        entry == withEntry[service_name]
        appended == [entry EXCEPT !.rules = Append(@, << qty, duration >>)]
        tracked ==
            IF qty > appended.max_qty
            THEN [appended EXCEPT !.max_qty = qty, !.max_duration = duration]
            ELSE appended
    IN  [withEntry EXCEPT ![service_name] = tracked]

\* the loop of lines 302-318
RECURSIVE BuildLoop(_, _, _)
BuildLoop(rules, i, lookup) ==
    IF i > Len(rules) THEN lookup
    ELSE LET rule == rules[i]
             service_name == get_service_name(rule.x_associated_service)
         IN  IF service_name = ""
             THEN BuildLoop(rules, i + 1, lookup)
             ELSE BuildLoop(rules, i + 1,
                     AddRule(lookup, service_name,
                             OrZero(rule.x_studio_quantity),
                             OrZero(rule.x_duurtijd_totaal)))

\* list.sort(key=lambda x: x[0]): stable, ascending by the first component
RECURSIVE InsertByKey(_, _)
InsertByKey(sorted, x) ==
    IF sorted = << >> THEN << x >>
    ELSE IF sorted[Len(sorted)][1] <= x[1] THEN Append(sorted, x)
    ELSE Append(InsertByKey(SubSeq(sorted, 1, Len(sorted) - 1), x),
                sorted[Len(sorted)])

RECURSIVE SortByKey(_)
SortByKey(xs) ==
    IF xs = << >> THEN << >>
    ELSE InsertByKey(SortByKey(SubSeq(xs, 1, Len(xs) - 1)), xs[Len(xs)])

build_duration_lookup(rules) ==
    LET lookup == BuildLoop(rules, 1, << >>)
    IN  [s \in DOMAIN lookup |->
            LET sorted == SortByKey(lookup[s].rules)
            IN  [rules |-> sorted,
                 max_duration |-> lookup[s].max_duration,
                 max_qty |-> lookup[s].max_qty,
                 quantities |-> [k \in 1..Len(sorted) |-> sorted[k][1]],
                 durations |-> [k \in 1..Len(sorted) |-> sorted[k][2]]]]

(***************************************************************************)
(* lookup_service_duration_fast                                            *)
(***************************************************************************)
\* bisect.bisect_left(a, x): lo and hi are 0-based, a is 1-based
RECURSIVE BisectLoop(_, _, _, _)
BisectLoop(a, x, lo, hi) ==
    IF lo < hi
    THEN LET mid == (lo + hi) \div 2
         IN  IF a[mid + 1] < x THEN BisectLoop(a, x, mid + 1, hi)
             ELSE BisectLoop(a, x, lo, mid)
    ELSE lo

\* a variant that searches to the right of equal elements (bisect_right)
RECURSIVE BisectRightLoop(_, _, _, _)
BisectRightLoop(a, x, lo, hi) ==
    IF lo < hi
    THEN LET mid == (lo + hi) \div 2
         IN  IF x < a[mid + 1] THEN BisectRightLoop(a, x, lo, mid)
             ELSE BisectRightLoop(a, x, mid + 1, hi)
    ELSE lo

bisect_right(a, x) == BisectRightLoop(a, x, 0, Len(a))

bisect_left(a, x) == BisectLoop(a, x, 0, Len(a))

lookup_service_duration_fast(service_name, quantity_threshold, lookup) ==
    IF service_name \notin DOMAIN lookup THEN 0
    ELSE LET service_data == lookup[service_name]
             quantities == service_data.quantities
             durations == service_data.durations
             idx == bisect_left(quantities, quantity_threshold)
         IN  IF Len(quantities) = 0 THEN 0
             ELSE IF idx < Len(quantities) THEN durations[idx + 1]
             ELSE service_data.max_duration

(***************************************************************************)
(* lookup_service_duration                                                 *)
(***************************************************************************)
RuleQty(r) == OrZero(r.x_studio_quantity)

\* max(xs, key=RuleQty): the first element with the greatest key
MaxByQty(xs) ==
    LET i == CHOOSE i \in 1..Len(xs) :
                /\ \A j \in 1..Len(xs) : RuleQty(xs[j]) <= RuleQty(xs[i])
                /\ \A j \in 1..(i - 1) : RuleQty(xs[j]) < RuleQty(xs[i])
    IN  xs[i]

\* min(xs, key=RuleQty): the first element with the least key
MinByQty(xs) ==
    LET i == CHOOSE i \in 1..Len(xs) :
                /\ \A j \in 1..Len(xs) : RuleQty(xs[j]) >= RuleQty(xs[i])
                /\ \A j \in 1..(i - 1) : RuleQty(xs[j]) > RuleQty(xs[i])
    IN  xs[i]

lookup_service_duration(service_name, quantity_threshold, rules) ==
    LET OfService(r) == get_service_name(r.x_associated_service) = service_name
        service_rules == SelectSeq(rules, OfService)
        Matches(r) == RuleQty(r) >= quantity_threshold
        matching_rules == SelectSeq(service_rules, Matches)
    IN  IF service_rules = << >> THEN 0
        ELSE IF matching_rules = << >>
        THEN OrZero(MaxByQty(service_rules).x_duurtijd_totaal)
        ELSE OrZero(MinByQty(matching_rules).x_duurtijd_totaal)

(***************************************************************************)
(* compute_price and compute_prices_vectorized (prices in cents)           *)
(***************************************************************************)
\* a variant that looks the duration up with the surface whatever the method
compute_price_surface_lookup(prod, dimension, rules, mrg) ==
    LET surface_m2 == dimension[5]
        circumference_m == dimension[6]
        price_computation == get_service_name(prod.x_studio_price_computation)
        standard_price == OrZero(prod.standard_price)
        service_name == get_service_name(prod.x_studio_associated_service)
        cost_per_hour ==
            OrZero(prod.x_studio_associated_cost_per_employee_per_hour)
        is_circumference == (price_computation = "Circumference")
        base_cost ==
            IF is_circumference THEN Rat(circumference_m * standard_price, 100)
            ELSE Rat(surface_m2 * standard_price, 100)
        duration_seconds ==
            lookup_service_duration(service_name, surface_m2, rules)
        labor_cost == Rat(duration_seconds * cost_per_hour, 3600)
        total_price == RatMul(RatAdd(base_cost, labor_cost), Rat(100 + mrg, 100))
    IN  Round2(total_price)

compute_price(prod, dimension, rules, mrg) ==
    LET surface_m2 == dimension[5]
        circumference_m == dimension[6]
        price_computation == get_service_name(prod.x_studio_price_computation)
        standard_price == OrZero(prod.standard_price)
        service_name == get_service_name(prod.x_studio_associated_service)
        cost_per_hour ==
            OrZero(prod.x_studio_associated_cost_per_employee_per_hour)
        is_circumference == (price_computation = "Circumference")
        base_cost ==
            IF is_circumference THEN Rat(circumference_m * standard_price, 100)
            ELSE Rat(surface_m2 * standard_price, 100)
        dimension_value ==
            IF is_circumference THEN circumference_m ELSE surface_m2
        duration_seconds ==
            lookup_service_duration(service_name, dimension_value, rules)
        labor_cost == Rat(duration_seconds * cost_per_hour, 3600)
        total_price == RatMul(RatAdd(base_cost, labor_cost), Rat(100 + mrg, 100))
    IN  Round2(total_price)

compute_prices_vectorized(prod, dims, lookup, mrg) ==
    LET price_computation == get_service_name(prod.x_studio_price_computation)
        standard_price == OrZero(prod.standard_price)
        service_name == get_service_name(prod.x_studio_associated_service)
        cost_per_hour ==
            OrZero(prod.x_studio_associated_cost_per_employee_per_hour)
        is_circumference == (price_computation = "Circumference")
        surfaces == [k \in 1..Len(dims) |-> dims[k][5]]
        circumferences == [k \in 1..Len(dims) |-> dims[k][6]]
        dimension_values == IF is_circumference THEN circumferences ELSE surfaces
        base_costs ==
            [k \in 1..Len(dims) |-> Rat(dimension_values[k] * standard_price, 100)]
        durations ==
            [k \in 1..Len(dims) |->
                lookup_service_duration_fast(service_name, dimension_values[k],
                                             lookup)]
        labor_costs ==
            [k \in 1..Len(dims) |-> Rat(durations[k] * cost_per_hour, 3600)]
        total_prices ==
            [k \in 1..Len(dims) |->
                RatMul(RatAdd(base_costs[k], labor_costs[k]), Rat(100 + mrg, 100))]
    IN  [k \in 1..Len(dims) |-> Round2(total_prices[k])]


(***************************************************************************)
(* Inputs of the pricing runs                                              *)
(***************************************************************************)
DurationRule(service, qty, duration) ==
    [x_associated_service |-> service, x_studio_quantity |-> qty,
     x_duurtijd_totaal |-> duration]

Framing == Many2one(1, "Framing")
Cutting == Many2one(2, "Cutting")

\* rules for the lookup runs: distinct, equal, zero and missing thresholds,
\* a missing duration, another service, no service (plain numbers)
LookupRuleSet ==
    { DurationRule(Framing, Num(1), Num(10)),
      DurationRule(Framing, Num(5), Num(20)),
      DurationRule(Framing, Num(10), Num(30)),
      DurationRule(Framing, Num(5), Num(30)),
      DurationRule(Framing, FalseVal, Num(20)),
      DurationRule(Framing, Num(0), FalseVal),
      DurationRule(Cutting, Num(5), Num(10)),
      DurationRule(FalseVal, Num(5), Num(30)) }

LookupServiceNames == {"Framing", "Cutting", "Gluing", ""}
LookupQuantities == {0, 1, 3, 5, 100}

\* rules for the pricing runs: thresholds in hundredths of m2 or m, seconds
PriceRuleSet ==
    { DurationRule(Framing, Num(10), Num(60)),
      DurationRule(Framing, Num(20), Num(120)),
      DurationRule(Framing, Num(200), Num(180)),
      DurationRule(Framing, FalseVal, Num(60)),
      DurationRule(FalseVal, Num(20), Num(120)) }

SeqsUpTo(S, n) == UNION { [1..k -> S] : k \in 0..n }

Product(price_computation, service) ==
    [x_studio_price_computation |-> price_computation,
     standard_price |-> Num(10),
     x_studio_associated_service |-> service,
     x_studio_associated_cost_per_employee_per_hour |-> Num(36)]

Products ==
    { Product(pc, sv) : pc \in {Str("Surface"), Str("Circumference"), FalseVal},
                        sv \in {Framing, FalseVal} }

DimensionLists ==
    { << Dimension(400, 400) >>,
      << Dimension(100, 200), Dimension(400, 400) >>,
      << Dimension(400, 600), Dimension(200, 800), Dimension(100, 100) >> }

Margins == {0, 50}

NoProduct == Product(FalseVal, FalseVal)

IdlePriceVars ==
    /\ duration_rules = << >>
    /\ product = NoProduct
    /\ dimensions = << >>
    /\ margin = 0
    /\ pricePc = "idle"
    /\ duration_lookup = << >>
    /\ query = << "", 0 >>
    /\ fast_result = 0
    /\ scan_result = 0
    /\ vector_prices = << >>
    /\ scalar_prices = << >>

\* duration_lookup = build_duration_lookup(duration_rules)
BuildDurationLookup ==
    /\ pricePc = "input"
    /\ duration_lookup' = build_duration_lookup(duration_rules)
    /\ pricePc' = "built"
    /\ UNCHANGED << duration_rules, product, dimensions, margin, query,
                    fast_result, scan_result, vector_prices, scalar_prices >>
    /\ UNCHANGED notPriceVars

\* lookup_service_duration_fast(service_name, quantity_threshold, duration_lookup)
LookupFast(service_name, quantity_threshold) ==
    /\ pricePc = "built"
    /\ query' = << service_name, quantity_threshold >>
    /\ fast_result' = lookup_service_duration_fast(service_name,
                            quantity_threshold, duration_lookup)
    /\ pricePc' = "fast"
    /\ UNCHANGED << duration_rules, product, dimensions, margin,
                    duration_lookup, scan_result, vector_prices, scalar_prices >>
    /\ UNCHANGED notPriceVars

\* lookup_service_duration(service_name, quantity_threshold, duration_rules)
LookupScan ==
    /\ pricePc = "fast"
    /\ scan_result' = lookup_service_duration(query[1], query[2], duration_rules)
    /\ pricePc' = "scan"
    /\ UNCHANGED << duration_rules, product, dimensions, margin,
                    duration_lookup, query, fast_result, vector_prices,
                    scalar_prices >>
    /\ UNCHANGED notPriceVars

\* prices = compute_prices_vectorized(product, dimensions, duration_lookup, margin)
ComputePricesVectorized ==
    /\ pricePc = "built"
    /\ vector_prices' = compute_prices_vectorized(product, dimensions,
                                                  duration_lookup, margin)
    /\ pricePc' = "vector"
    /\ UNCHANGED << duration_rules, product, dimensions, margin,
                    duration_lookup, query, fast_result, scan_result,
                    scalar_prices >>
    /\ UNCHANGED notPriceVars

\* compute_price(product, dimensions[i], duration_rules, margin), one
\* dimension after the other
ComputePrice ==
    /\ pricePc = "vector"
    /\ LET i == Len(scalar_prices) + 1
       IN  /\ scalar_prices' =
                Append(scalar_prices,
                       compute_price(product, dimensions[i], duration_rules,
                                     margin))
           /\ pricePc' = IF i = Len(dimensions) THEN "priced" ELSE "vector"
    /\ UNCHANGED << duration_rules, product, dimensions, margin,
                    duration_lookup, query, fast_result, scan_result,
                    vector_prices >>
    /\ UNCHANGED notPriceVars


(***************************************************************************)
(* create_product_and_bom                                                  *)
(***************************************************************************)
\* 'qty' is not a key of the component dict
NoQty == [tag |-> "absent"]

Component(name, reference, qty) ==
    [name |-> name, reference |-> reference, qty |-> qty]

\* the catalog's component products (product.product), by x_studio_product_code
CatalogComponents ==
    { [id |-> 11, x_studio_product_code |-> "GL",
       x_studio_price_computation |-> Str("Surface"),
       x_studio_associated_service |-> Many2one(1, "Glazing"),
       x_studio_associated_service_duration_rule |-> << 102, 101 >>],
      [id |-> 12, x_studio_product_code |-> "FR",
       x_studio_price_computation |-> Str("Circumference"),
       x_studio_associated_service |-> Many2one(2, "Framing"),
       x_studio_associated_service_duration_rule |-> << 103 >>],
      [id |-> 13, x_studio_product_code |-> "HK",
       x_studio_price_computation |-> FalseVal,
       x_studio_associated_service |-> FalseVal,
       x_studio_associated_service_duration_rule |-> << >>],
      [id |-> 14, x_studio_product_code |-> "MT",
       x_studio_price_computation |-> Str("Surface"),
       x_studio_associated_service |-> Many2one(3, "Mounting"),
       x_studio_associated_service_duration_rule |-> << 101 >>],
      [id |-> 15, x_studio_product_code |-> "BK",
       x_studio_price_computation |-> FalseVal,
       x_studio_associated_service |-> Many2one(1, "Glazing"),
       x_studio_associated_service_duration_rule |-> << 199 >>] }

\* the catalog's services (x_services); service 3 cannot be read
CatalogServices ==
    { [id |-> 1, x_name |-> "Glazing",
       x_studio_associated_work_center |-> Many2one(7, "Glass bench")],
      [id |-> 2, x_name |-> "Framing",
       x_studio_associated_work_center |-> FalseVal] }

\* the catalog's duration rules (x_services_duration_rules), quantities in
\* hundredths; rule 199 cannot be read
CatalogDurationRules ==
    { [id |-> 101, x_studio_quantity |-> 10, x_duurtijd_totaal |-> 60],
      [id |-> 102, x_studio_quantity |-> 20, x_duurtijd_totaal |-> 120],
      [id |-> 103, x_studio_quantity |-> 100, x_duurtijd_totaal |-> 90] }

Truthy(v) == v.tag # "false"

\* {key(r): r for r in records}
ById(records) ==
    [k \in { r.id : r \in records } |-> CHOOSE r \in records : r.id = k]

ByReference(records) ==
    [k \in { r.x_studio_product_code : r \in records } |->
        CHOOSE r \in records : r.x_studio_product_code = k]

SeqRange(xs) == { xs[k] : k \in 1..Len(xs) }

\* lines 659-666: search_read of the components whose code is in references
SearchReadComponents(comps) ==
    LET references == { comps[k].reference : k \in
                            { j \in 1..Len(comps) : comps[j].reference # "" } }
    IN  { r \in CatalogComponents : r.x_studio_product_code \in references }

\* lines 673-679
CollectServiceIds(all_component_data) ==
    { r.x_studio_associated_service.items[1] :
        r \in { c \in all_component_data :
                    Truthy(c.x_studio_associated_service) } }

CollectDurationRuleIds(all_component_data) ==
    UNION { SeqRange(r.x_studio_associated_service_duration_rule) :
                r \in all_component_data }

\* a variant that lets the pricing method win over a supplied quantity
ComponentQuantityMethodFirst(component, component_info, surface_m2, circumference_m) ==
    IF component_info.x_studio_price_computation = Str("Circumference")
    THEN circumference_m
    ELSE IF component_info.x_studio_price_computation = Str("Surface")
    THEN surface_m2
    ELSE IF component.qty # NoQty /\ component.qty # Num(100)
    THEN component.qty.n
    ELSE 100

\* lines 724-736: the quantity of a resolved component, in hundredths
ComponentQuantity(component, component_info, surface_m2, circumference_m) ==
    IF component.qty # NoQty /\ component.qty # Num(100)
    THEN component.qty.n
    ELSE IF component_info.x_studio_price_computation = Str("Circumference")
    THEN circumference_m
    ELSE IF component_info.x_studio_price_computation = Str("Surface")
    THEN surface_m2
    ELSE 100

\* a variant that drops an unresolved component without recording it
SkipEntryDropped(skipped, component) == skipped

\* lines 712-716
SkipEntry(skipped, component) ==
    Append(skipped, [name |-> component.name,
                     reference |-> component.reference,
                     reason |-> "Not found in Odoo"])

\* a variant that looks the component up remotely inside the loop
CallsInLoopPerComponent(calls_) ==
    [calls_ EXCEPT !.component_lookup = @ + 1]

\* lines 702-706: the loop reads components_by_ref and issues no remote call
CallsInLoop(calls_) == calls_

\* a variant that takes the first qualifying rule in the order of the
\* component's rule ids, without sorting
MatchingRuleUnsorted(rules, relevant_value) ==
    LET hits == { k \in 1..Len(rules) : rules[k].x_studio_quantity >= relevant_value }
    IN  IF hits = {} THEN rules[Len(rules)]
        ELSE rules[CHOOSE k \in hits : \A j \in hits : k <= j]

\* lines 771-773: the rule with the smallest x_studio_quantity >=
\* relevant_value among the sorted rules, the last one if none
MatchingRule(rules, relevant_value) ==
    LET keyed == [k \in 1..Len(rules) |-> << rules[k].x_studio_quantity, rules[k] >>]
        rules_sorted == SortByKey(keyed)
        hits == { k \in 1..Len(rules_sorted) : rules_sorted[k][1] >= relevant_value }
    IN  IF hits = {} THEN rules_sorted[Len(rules_sorted)][2]
        ELSE rules_sorted[CHOOSE k \in hits : \A j \in hits : k <= j][2]

\* a variant that also omits the operation of a service without a work
\* center
OperationsAfterWorkCenterOnly(operations, component_info, quantity, services, rules_by_id) ==
    IF ~Truthy(component_info.x_studio_associated_service) THEN operations
    ELSE
      LET service_id == component_info.x_studio_associated_service.items[1]
          rule_ids == component_info.x_studio_associated_service_duration_rule
          InBatch(rid) == rid \in DOMAIN rules_by_id
          found_ids == SelectSeq(rule_ids, InBatch)
      IN  IF service_id \notin DOMAIN services \/ found_ids = << >> THEN operations
          ELSE IF ~Truthy(services[service_id].x_studio_associated_work_center)
          THEN operations
          ELSE Append(operations,
                  [name |-> services[service_id].x_name,
                   time_cycle_manual |->
                      Rat(MatchingRule([k \in 1..Len(found_ids) |->
                                           rules_by_id[found_ids[k]]],
                                       quantity).x_duurtijd_totaal, 60),
                   workcenter_id |->
                      services[service_id].x_studio_associated_work_center.items[1]])

\* lines 749-790: the operations list after one resolved component
OperationsAfter(operations, component_info, quantity, services, rules_by_id) ==
    IF ~Truthy(component_info.x_studio_associated_service) THEN operations
    ELSE
      LET service_id == component_info.x_studio_associated_service.items[1]
          rule_ids == component_info.x_studio_associated_service_duration_rule
          InBatch(rid) == rid \in DOMAIN rules_by_id
          found_ids == SelectSeq(rule_ids, InBatch)
          duration_rules_ == [k \in 1..Len(found_ids) |-> rules_by_id[found_ids[k]]]
      IN  IF service_id \notin DOMAIN services THEN operations
          ELSE IF duration_rules_ = << >> THEN operations
          ELSE
            LET service_info == services[service_id]
                matching_rule == MatchingRule(duration_rules_, quantity)
                duration_seconds == matching_rule.x_duurtijd_totaal
            IN  Append(operations,
                   [name |-> service_info.x_name,
                    time_cycle_manual |-> Rat(duration_seconds, 60),
                    workcenter_id |->
                        IF Truthy(service_info.x_studio_associated_work_center)
                        THEN service_info.x_studio_associated_work_center.items[1]
                        ELSE 0])

NoCalls ==
    [create_product |-> 0, component_lookup |-> 0, service_read |-> 0,
     rule_read |-> 0, template_read |-> 0, route_write |-> 0, bom_create |-> 0]

IdleBomVars ==
    /\ components = << >>
    /\ width = 0
    /\ height = 0
    /\ original_template_name = FalseVal
    /\ bomPc = "idle"
    /\ bomIndex = 0
    /\ components_by_ref = << >>
    /\ service_ids = {}
    /\ duration_rule_ids = {}
    /\ services_by_id = << >>
    /\ duration_rules_by_id = << >>
    /\ bom_components = << >>
    /\ bom_operations = << >>
    /\ skipped_components = << >>
    /\ bomCalls = NoCalls
    /\ odooProducts = << >>
    /\ odooBoms = << >>
    /\ bomReturn = << >>

References == {"GL", "FR", "HK", "MT", "BK", "XX", ""}
Quantities == {NoQty, Num(100), Num(250)}
ComponentInputs == { Component(r, r, q) : r \in References, q \in Quantities }
Sizes == { << 400, 400 >>, << 300, 500 >>, << 200, 400 >> }

InitBomVars ==
    /\ components \in SeqsUpTo(ComponentInputs, MaxComponents)
    /\ \E size \in Sizes : width = size[1] /\ height = size[2]
    /\ original_template_name \in {FalseVal, Str("Poster")}
    /\ bomPc = "create_product"
    /\ bomIndex = 0
    /\ components_by_ref = << >>
    /\ service_ids = {}
    /\ duration_rule_ids = {}
    /\ services_by_id = << >>
    /\ duration_rules_by_id = << >>
    /\ bom_components = << >>
    /\ bom_operations = << >>
    /\ skipped_components = << >>
    /\ bomCalls = NoCalls
    /\ odooProducts = << >>
    /\ odooBoms = << >>
    /\ bomReturn = << >>

surface_m2 == (width * height) \div 10000
circumference_m == (2 * (width + height)) \div 10

\* lines 611-635: product.product create
CreateProduct ==
    /\ bomPc = "create_product"
    /\ odooProducts' = Append(odooProducts,
            [id |-> Len(odooProducts) + 1,
             x_studio_width |-> width, x_studio_height |-> height,
             description_sale |->
                IF Truthy(original_template_name)
                THEN Str("Original: " \o original_template_name.s)
                ELSE FalseVal,
             route_ids |-> {}])
    /\ bomCalls' = [bomCalls EXCEPT !.create_product = @ + 1]
    /\ bomPc' = "fetch_components"
    /\ UNCHANGED << components, width, height, original_template_name, bomIndex,
                    components_by_ref, service_ids, duration_rule_ids,
                    services_by_id, duration_rules_by_id, bom_components,
                    bom_operations, skipped_components, odooBoms, bomReturn >>
    /\ UNCHANGED notBomVars

\* lines 658-679: the batched component search_read, then the id sets
FetchComponents ==
    /\ bomPc = "fetch_components"
    /\ LET all_component_data == SearchReadComponents(components)
       IN  /\ components_by_ref' = ByReference(all_component_data)
           /\ service_ids' = CollectServiceIds(all_component_data)
           /\ duration_rule_ids' = CollectDurationRuleIds(all_component_data)
    /\ bomCalls' = [bomCalls EXCEPT !.component_lookup = @ + 1]
    /\ bomPc' = "fetch_services"
    /\ UNCHANGED << components, width, height, original_template_name, bomIndex,
                    services_by_id, duration_rules_by_id, bom_components,
                    bom_operations, skipped_components, odooProducts, odooBoms,
                    bomReturn >>
    /\ UNCHANGED notBomVars

\* lines 681-689: one batched read of the services, if there are any
FetchServices ==
    /\ bomPc = "fetch_services"
    /\ IF service_ids # {}
       THEN /\ services_by_id' =
                    ById({ r \in CatalogServices : r.id \in service_ids })
            /\ bomCalls' = [bomCalls EXCEPT !.service_read = @ + 1]
       ELSE UNCHANGED << services_by_id, bomCalls >>
    /\ bomPc' = "fetch_rules"
    /\ UNCHANGED << components, width, height, original_template_name, bomIndex,
                    components_by_ref, service_ids, duration_rule_ids,
                    duration_rules_by_id, bom_components, bom_operations,
                    skipped_components, odooProducts, odooBoms, bomReturn >>
    /\ UNCHANGED notBomVars

\* lines 691-699: one batched read of the duration rules, if there are any
FetchDurationRules ==
    /\ bomPc = "fetch_rules"
    /\ IF duration_rule_ids # {}
       THEN /\ duration_rules_by_id' =
                    ById({ r \in CatalogDurationRules : r.id \in duration_rule_ids })
            /\ bomCalls' = [bomCalls EXCEPT !.rule_read = @ + 1]
       ELSE UNCHANGED << duration_rules_by_id, bomCalls >>
    /\ bomPc' = "loop"
    /\ UNCHANGED << components, width, height, original_template_name, bomIndex,
                    components_by_ref, service_ids, duration_rule_ids,
                    services_by_id, bom_components, bom_operations,
                    skipped_components, odooProducts, odooBoms, bomReturn >>
    /\ UNCHANGED notBomVars

\* lines 702-790: one iteration of the loop over the components
ProcessComponent ==
    /\ bomPc = "loop"
    /\ bomIndex < Len(components)
    /\ LET component == components[bomIndex + 1]
       IN  IF component.reference \notin DOMAIN components_by_ref
           THEN /\ skipped_components' = SkipEntry(skipped_components, component)
                /\ UNCHANGED << bom_components, bom_operations >>
           ELSE LET component_info == components_by_ref[component.reference]
                    quantity == ComponentQuantity(component, component_info,
                                                  surface_m2, circumference_m)
                IN  /\ bom_components' = Append(bom_components,
                            [product_id |-> component_info.id,
                             product_qty |-> quantity])
                    /\ bom_operations' = OperationsAfter(bom_operations,
                            component_info, quantity, services_by_id,
                            duration_rules_by_id)
                    /\ UNCHANGED skipped_components
    /\ bomCalls' = CallsInLoop(bomCalls)
    /\ bomIndex' = bomIndex + 1
    /\ UNCHANGED << components, width, height, original_template_name, bomPc,
                    components_by_ref, service_ids, duration_rule_ids,
                    services_by_id, duration_rules_by_id, odooProducts,
                    odooBoms, bomReturn >>
    /\ UNCHANGED notBomVars

\* lines 800-806: read the template id of the created product
ReadTemplate ==
    /\ bomPc = "loop"
    /\ bomIndex = Len(components)
    /\ bomCalls' = [bomCalls EXCEPT !.template_read = @ + 1]
    /\ bomPc' = "set_routes"
    /\ UNCHANGED << components, width, height, original_template_name, bomIndex,
                    components_by_ref, service_ids, duration_rule_ids,
                    services_by_id, duration_rules_by_id, bom_components,
                    bom_operations, skipped_components, odooProducts, odooBoms,
                    bomReturn >>
    /\ UNCHANGED notBomVars

\* a variant that goes on to the BOM without the write of the routes
SetRoutesSkipped ==
    /\ bomPc = "set_routes"
    /\ bomPc' = "create_bom"
    /\ UNCHANGED << components, width, height, original_template_name, bomIndex,
                    components_by_ref, service_ids, duration_rule_ids,
                    services_by_id, duration_rules_by_id, bom_components,
                    bom_operations, skipped_components, bomCalls, odooProducts,
                    odooBoms, bomReturn >>
    /\ UNCHANGED notBomVars

\* lines 809-815: route_ids = [(6, 0, [1, 4])]
SetRoutes ==
    /\ bomPc = "set_routes"
    /\ odooProducts' = [odooProducts EXCEPT ![Len(odooProducts)].route_ids = {1, 4}]
    /\ bomCalls' = [bomCalls EXCEPT !.route_write = @ + 1]
    /\ bomPc' = "create_bom"
    /\ UNCHANGED << components, width, height, original_template_name, bomIndex,
                    components_by_ref, service_ids, duration_rule_ids,
                    services_by_id, duration_rules_by_id, bom_components,
                    bom_operations, skipped_components, odooBoms, bomReturn >>
    /\ UNCHANGED notBomVars

\* lines 818-838: mrp.bom create, then the return
CreateBom ==
    /\ bomPc = "create_bom"
    /\ odooBoms' = Append(odooBoms,
            [id |-> Len(odooBoms) + 1,
             product_tmpl_id |-> Len(odooProducts),
             routes_at_creation |-> odooProducts[Len(odooProducts)].route_ids,
             bom_line_ids |-> bom_components,
             operation_ids |-> bom_operations])
    /\ bomCalls' = [bomCalls EXCEPT !.bom_create = @ + 1]
    /\ bomReturn' = << Len(odooProducts), Len(odooBoms) + 1,
                       Len(bom_components), Len(bom_operations),
                       skipped_components >>
    /\ bomPc' = "done"
    /\ UNCHANGED << components, width, height, original_template_name, bomIndex,
                    components_by_ref, service_ids, duration_rule_ids,
                    services_by_id, duration_rules_by_id, bom_components,
                    bom_operations, skipped_components, odooProducts >>
    /\ UNCHANGED notBomVars

\* a remote call raises: create_product_and_bom has no handler, the exception
\* leaves the function
BomRemoteFailure ==
    /\ \/ bomPc \in {"create_product", "fetch_components", "set_routes", "create_bom"}
       \/ bomPc = "fetch_services" /\ service_ids # {}
       \/ bomPc = "fetch_rules" /\ duration_rule_ids # {}
       \/ bomPc = "loop" /\ bomIndex = Len(components)
    /\ bomPc' = "failed"
    /\ UNCHANGED << components, width, height, original_template_name, bomIndex,
                    components_by_ref, service_ids, duration_rule_ids,
                    services_by_id, duration_rules_by_id, bom_components,
                    bom_operations, skipped_components, bomCalls, odooProducts,
                    odooBoms, bomReturn >>
    /\ UNCHANGED notBomVars

(***************************************************************************)
(* process_order_line_parallel and handle_odoo_order                       *)
(*                                                                         *)
(* Names and descriptions are sequences of one-character strings, so that  *)
(* the regular expressions of the code can be computed on them.            *)
(***************************************************************************)
\* line 1736: max_workers = min(5, total_lines)
MAX_WORKERS == 5

Digits == {"0", "1", "2", "3", "4", "5", "6", "7", "8", "9"}
DigitChars == << "0", "1", "2", "3", "4", "5", "6", "7", "8", "9" >>

\* str(n) for a natural number
RECURSIVE DecimalLoop(_, _)
DecimalLoop(n, acc) ==
    IF n > 0 THEN DecimalLoop(n \div 10, << DigitChars[(n % 10) + 1] >> \o acc)
    ELSE acc

Decimal(n) == IF n = 0 THEN << "0" >> ELSE DecimalLoop(n, << >>)

\* str(mm / 10): the float of a whole number of millimetres, "40.0", "30.5"
TenthsStr(mm) == Decimal(mm \div 10) \o << "." >> \o Decimal(mm % 10)

RECURSIVE LStrip(_)
LStrip(s) == IF s # << >> /\ Head(s) = " " THEN LStrip(Tail(s)) ELSE s

RECURSIVE RStrip(_)
RStrip(s) ==
    IF s # << >> /\ s[Len(s)] = " " THEN RStrip(SubSeq(s, 1, Len(s) - 1)) ELSE s

\* str.strip()
Strip(s) == RStrip(LStrip(s))

\* str.startswith(prefix)
StartsWith(s, prefix) ==
    Len(s) >= Len(prefix) /\ SubSeq(s, 1, Len(prefix)) = prefix

\* re.search(r'PR\d{6}', s)
SearchPrPattern(s) ==
    \E i \in 1..(Len(s) - 7) :
        /\ s[i] = "P"
        /\ s[i + 1] = "R"
        /\ \A j \in 2..7 : s[i + j] \in Digits

\* the first position at or after i that holds no blank (\s*)
RECURSIVE SkipBlanks(_, _)
SkipBlanks(s, i) ==
    IF i <= Len(s) /\ s[i] = " " THEN SkipBlanks(s, i + 1) ELSE i

\* the first position at or after i that holds no digit (\d*)
RECURSIVE SkipDigits(_, _)
SkipDigits(s, i) ==
    IF i <= Len(s) /\ s[i] \in Digits THEN SkipDigits(s, i + 1) ELSE i

\* \d+\.?\d* from position i: the position after the match, 0 if none
NumberEnd(s, i) ==
    LET a == SkipDigits(s, i)
    IN  IF a = i THEN 0
        ELSE IF a <= Len(s) /\ s[a] = "." THEN SkipDigits(s, a + 1)
        ELSE a

\* \s*\(\d+\.?\d*x\d+\.?\d*\) matches from position i
DimensionSuffixAt(s, i) ==
    LET a == SkipBlanks(s, i)
    IN  /\ a <= Len(s)
        /\ s[a] = "("
        /\ LET b == NumberEnd(s, a + 1)
           IN  /\ b # 0
               /\ b <= Len(s)
               /\ s[b] = "x"
               /\ LET c == NumberEnd(s, b + 1)
                  IN  c # 0 /\ c <= Len(s) /\ s[c] = ")"

\* re.match(r'^(.+?)\s*\(\d+\.?\d*x\d+\.?\d*\)', s): the lengths the lazy
\* group (.+?) can have
DimensionGroupLengths(s) ==
    { k \in 1..Len(s) : DimensionSuffixAt(s, k + 1) }

OriginalPrefix == << "O", "r", "i", "g", "i", "n", "a", "l", ":", " " >>

\* the recovery with the order line's description consulted before the
\* product's description_sale
RecoverOriginalNameLineFirst(current_product_name, product_description_sale, order_line_description) ==
    IF ~SearchPrPattern(current_product_name)
    THEN [name |-> current_product_name, source |-> "current"]
    ELSE
      LET lengths == DimensionGroupLengths(order_line_description)
          extracted_name ==
              IF lengths = {} THEN << >>
              ELSE Strip(SubSeq(order_line_description, 1,
                                CHOOSE k \in lengths : \A j \in lengths : k <= j))
          from_description ==
              IF /\ product_description_sale # FalseVal
                 /\ StartsWith(product_description_sale.s, OriginalPrefix)
              THEN Strip(SubSeq(product_description_sale.s, 11,
                                Len(product_description_sale.s)))
              ELSE << >>
      IN  IF extracted_name # << >> /\ ~SearchPrPattern(extracted_name)
          THEN [name |-> extracted_name, source |-> "order_line"]
          ELSE IF from_description # << >>
          THEN [name |-> from_description, source |-> "description_sale"]
          ELSE [name |-> current_product_name, source |-> "warning"]

\* lines 352-375: the original template name and whether the warning of
\* line 373 is logged; a missing description is FalseVal
RecoverOriginalName(current_product_name, product_description_sale, order_line_description) ==
    IF ~SearchPrPattern(current_product_name)
    THEN [name |-> current_product_name, source |-> "current"]
    ELSE
      LET from_description ==
              IF /\ product_description_sale # FalseVal
                 /\ product_description_sale.s # << >>
                 /\ StartsWith(product_description_sale.s, OriginalPrefix)
              THEN Strip(SubSeq(product_description_sale.s, 11,
                                Len(product_description_sale.s)))
              ELSE << >>
          lengths == DimensionGroupLengths(order_line_description)
          extracted_name ==
              IF lengths = {} THEN << >>
              ELSE Strip(SubSeq(order_line_description, 1,
                                CHOOSE k \in lengths : \A j \in lengths : k <= j))
      IN  IF from_description # << >>
          THEN [name |-> from_description, source |-> "description_sale"]
          ELSE IF /\ order_line_description # << >>
                  /\ lengths # {}
                  /\ ~SearchPrPattern(extracted_name)
                  /\ extracted_name # << >>
          THEN [name |-> extracted_name, source |-> "order_line"]
          ELSE [name |-> current_product_name, source |-> "warning"]

\* " - ".join(visible_components)
RECURSIVE JoinVisible(_)
JoinVisible(visible_components) ==
    IF visible_components = << >> THEN << >>
    ELSE IF Len(visible_components) = 1 THEN visible_components[1]
    ELSE visible_components[1] \o << " - " >> \o JoinVisible(Tail(visible_components))

\* lines 250-276: f"{name} ({width/10}x{height/10})", then the visible
\* components after " - Materiaal: "
build_order_line_description_odoo(original_product_name, width_mm, height_mm, visible_components) ==
    original_product_name \o << " ", "(" >> \o TenthsStr(width_mm) \o << "x" >>
        \o TenthsStr(height_mm) \o << ")" >>
        \o (IF visible_components # << >>
            THEN << " - Materiaal: " >> \o JoinVisible(visible_components)
            ELSE << >>)

\* ---- the catalog an order refers to
Poster == << "P", "o", "s", "t", "e", "r" >>
Canvas == << "C", "a", "n", "v", "a", "s" >>
Mirror == << "M", "i", "r", "r", "o", "r" >>
PR000123 == << "P", "R", "0", "0", "0", "1", "2", "3" >>

\* product.product records of finished products: 21 has a template-level
\* BOM, 22 is a variant with its own BOM, 23 a variant of the same template
\* without one, 24 has no BOM, 25 is a product a former run created from
\* 'Poster'
OrderProducts ==
    { [id |-> 21, name |-> Poster, display_name |-> Str(Poster),
       default_code |-> Str("P21"), product_tmpl_id |-> Many2one(31, "Poster"),
       description_sale |-> FalseVal,
       x_studio_width |-> 400, x_studio_height |-> 400,
       product_template_attribute_value_ids |-> << >>],
      [id |-> 22, name |-> Canvas, display_name |-> FalseVal,
       default_code |-> Str("C22"), product_tmpl_id |-> Many2one(32, "Canvas"),
       description_sale |-> FalseVal,
       x_studio_width |-> 300, x_studio_height |-> 505,
       product_template_attribute_value_ids |-> << 5 >>],
      [id |-> 23, name |-> Canvas, display_name |-> Str(Canvas),
       default_code |-> Str("C23"), product_tmpl_id |-> Many2one(32, "Canvas"),
       description_sale |-> FalseVal,
       x_studio_width |-> 400, x_studio_height |-> 400,
       product_template_attribute_value_ids |-> << 6 >>],
      [id |-> 24, name |-> Mirror, display_name |-> Str(Mirror),
       default_code |-> FalseVal, product_tmpl_id |-> Many2one(34, "Mirror"),
       description_sale |-> FalseVal,
       x_studio_width |-> 400, x_studio_height |-> 400,
       product_template_attribute_value_ids |-> << >>],
      [id |-> 25, name |-> PR000123, display_name |-> Str(PR000123),
       default_code |-> Str("PR000123"),
       product_tmpl_id |-> Many2one(35, "PR000123"),
       description_sale |-> Str(OriginalPrefix \o Poster),
       x_studio_width |-> 400, x_studio_height |-> 400,
       product_template_attribute_value_ids |-> << >>] }

\* mrp.bom records: 41 template-level, 42 bound to product 22, 43
\* template-level for the template of 22 and 23, 45 bound to product 25, 46
\* template-level for the template of 25
CatalogBoms ==
    { [id |-> 41, product_id |-> FalseVal,
       product_tmpl_id |-> Many2one(31, "Poster"), bom_line_ids |-> << 61, 62 >>],
      [id |-> 42, product_id |-> Many2one(22, "Canvas"),
       product_tmpl_id |-> Many2one(32, "Canvas"), bom_line_ids |-> << 63 >>],
      [id |-> 43, product_id |-> FalseVal,
       product_tmpl_id |-> Many2one(32, "Canvas"), bom_line_ids |-> << 64 >>],
      [id |-> 45, product_id |-> Many2one(25, "PR000123"),
       product_tmpl_id |-> Many2one(35, "PR000123"), bom_line_ids |-> << 65, 61 >>],
      [id |-> 46, product_id |-> FalseVal,
       product_tmpl_id |-> Many2one(35, "PR000123"), bom_line_ids |-> << 62 >>] }

\* mrp.bom.line records, quantities in hundredths
CatalogBomLines ==
    { [id |-> 61, product_id |-> Many2one(11, "GL"), product_qty |-> 100],
      [id |-> 62, product_id |-> Many2one(12, "FR"), product_qty |-> 100],
      [id |-> 63, product_id |-> Many2one(11, "GL"), product_qty |-> 250],
      [id |-> 64, product_id |-> Many2one(13, "HK"), product_qty |-> 100],
      [id |-> 65, product_id |-> Many2one(17, "Cord"), product_qty |-> 100] }

\* name and x_studio_product_code of the component products; product 17 has
\* no code (False), which the code treats like the empty reference
ComponentProducts ==
    { [id |-> r.id, name |-> r.x_studio_product_code,
       x_studio_product_code |-> r.x_studio_product_code] : r \in CatalogComponents }
    \cup { [id |-> 17, name |-> "Cord", x_studio_product_code |-> ""] }

\* the component codes with x_studio_is_visible_in_portal_reports set
VisibleCodes == {"GL", "HK"}

OrderProduct(id) == CHOOSE r \in OrderProducts : r.id = id
BomLine(id) == CHOOSE r \in CatalogBomLines : r.id = id
ComponentProduct(id) == CHOOSE r \in ComponentProducts : r.id = id

\* sale.order.line as read at lines 1669-1672
OrderLine(id, product_id, product_uom_qty, product_updatable, name) ==
    [id |-> id,
     product_id |-> Many2one(product_id, "product"),
     price_unit |-> 10,
     product_uom_qty |-> product_uom_qty,
     product_updatable |-> product_updatable,
     product_template_attribute_value_ids |->
        OrderProduct(product_id).product_template_attribute_value_ids,
     name |-> name]

\* what an order line can be: << product, quantity in hundredths, updatable >>
OrderLineKinds ==
    { << 21, 100, TRUE >>, << 22, 100, TRUE >>, << 23, 100, TRUE >>,
      << 25, 100, TRUE >>,
      << 24, 100, TRUE >>, << 21, 200, TRUE >>, << 22, 100, FALSE >>,
      << 24, 200, FALSE >>, << 24, 100, FALSE >> }

\* the order line ids of the order
LineId(i) == 500 + i

OrderLines ==
    { [i \in 1..Len(kinds) |->
          OrderLine(LineId(i), kinds[i][1], kinds[i][2], kinds[i][3],
                    build_order_line_description_odoo(
                        OrderProduct(kinds[i][1]).name,
                        OrderProduct(kinds[i][1]).x_studio_width,
                        OrderProduct(kinds[i][1]).x_studio_height, << >>))] :
        kinds \in SeqsUpTo(OrderLineKinds, MaxLines) }

NoResponse == [code |-> 0]
NoLocals ==
    [original_product_name |-> << >>, components |-> << >>,
     product_name |-> << >>, new_product_id |-> 0, new_product_tmpl_id |-> 0,
     bom_id |-> 0, bom_components |-> << >>, bom_operations |-> << >>,
     skipped_components |-> << >>, new_order_line_description |-> << >>]

\* outside a request: no order, nobody runs
IdleOrderVars ==
    /\ order_lines = << >>
    /\ order_lines_by_id = << >>
    /\ mainPc = "idle"
    /\ bom_by_product = << >>
    /\ bom_by_template = << >>
    /\ linePc = << >>
    /\ lineLocals = << >>
    /\ lineRaised = << >>
    /\ lineReturns = << >>
    /\ line_log_buffer = << >>
    /\ parallel_results = << >>
    /\ processed_lines = << >>
    /\ request_log = << >>
    /\ response = NoResponse

\* a request for an order arrives
InitOrderVars ==
    /\ order_lines \in OrderLines
    /\ order_lines_by_id = << >>
    /\ mainPc = "prefetch"
    /\ bom_by_product = << >>
    /\ bom_by_template = << >>
    /\ linePc = [i \in 1..Len(order_lines) |-> "unsubmitted"]
    /\ lineLocals = [i \in 1..Len(order_lines) |-> NoLocals]
    /\ lineRaised = [i \in 1..Len(order_lines) |-> << >>]
    /\ lineReturns = [i \in 1..Len(order_lines) |-> << >>]
    /\ line_log_buffer = [i \in 1..Len(order_lines) |-> << >>]
    /\ parallel_results = << >>
    /\ processed_lines = << >>
    /\ request_log = << >>
    /\ response = NoResponse

\* what the order actions leave alone in the other subsystems
refRest == << reference_counter_lock, clock, refPc, counter_value, timestamp,
              calls, generated >>
bomRest == << components, width, height, original_template_name, bomPc,
              bomIndex, components_by_ref, service_ids, duration_rule_ids,
              services_by_id, duration_rules_by_id, bom_components,
              bom_operations, skipped_components, bomCalls, bomReturn >>
orderFrame == << priceVars, refRest, bomRest, recoverVars, reprocessVars, exportVars,
                 retryVars, routeVars >>

Lines == 1..Len(order_lines)

\* a record of the shared logger: the thread that emitted it (0 is the
\* request thread), the line of its "[Line i]" prefix (0 if none), its text
LogRecord(thread, line, text) ==
    [thread |-> thread, line |-> line, text |-> text]

\* d[k] = v
DictSet(d, k, v) ==
    [x \in (DOMAIN d) \cup {k} |-> IF x = k THEN v ELSE d[x]]

\* lines 1716-1723: the two lookups after the BOMs boms[i..]
RECURSIVE BuildBomLookups(_, _, _, _)
BuildBomLookups(boms, i, by_product, by_template) ==
    IF i > Len(boms) THEN << by_product, by_template >>
    ELSE
      LET bom == boms[i]
          by_product_ == IF Truthy(bom.product_id)
                         THEN DictSet(by_product, bom.product_id.items[1], bom)
                         ELSE by_product
          tmpl_id == bom.product_tmpl_id.items[1]
          by_template_ == IF Truthy(bom.product_tmpl_id)
                             /\ tmpl_id \notin DOMAIN by_template
                          THEN DictSet(by_template, tmpl_id, bom)
                          ELSE by_template
      IN  BuildBomLookups(boms, i + 1, by_product_, by_template_)

\* lines 1688-1709: the BOMs of the products and templates of the order
PrefetchedBoms(lines) ==
    LET all_product_ids == { lines[i].product_id.items[1] : i \in 1..Len(lines) }
        all_template_ids ==
            { OrderProduct(p).product_tmpl_id.items[1] : p \in all_product_ids }
    IN  { b \in CatalogBoms :
            \/ Truthy(b.product_id) /\ b.product_id.items[1] \in all_product_ids
            \/ b.product_tmpl_id.items[1] \in all_template_ids }

\* the orders in which a read can return a set of records
Orderings(S) ==
    { f \in [1..Cardinality(S) -> S] :
        \A i, j \in 1..Cardinality(S) : i # j => f[i] # f[j] }

\* lines 1624-1725: connect, read the order, its lines and products, find
\* and read the BOMs, build the lookups; then submit every line to the pool
Prefetch ==
    /\ mainPc = "prefetch"
    /\ order_lines # << >>
    /\ \E all_boms \in Orderings(PrefetchedBoms(order_lines)) :
          LET lookups == BuildBomLookups(all_boms, 1, << >>, << >>)
          IN  /\ bom_by_product' = lookups[1]
              /\ bom_by_template' = lookups[2]
    /\ order_lines_by_id' =
            [id \in { LineId(i) : i \in Lines } |->
                CHOOSE line \in SeqRange(order_lines) : line.id = id]
    /\ parallel_results' = [i \in Lines |-> << >>]
    /\ linePc' = [i \in Lines |-> "pending"]
    /\ request_log' = request_log \o
            << LogRecord(0, 0, "Starting Odoo order processing"),
               LogRecord(0, 0, "Starting parallel processing") >>
    /\ mainPc' = "pool"
    /\ UNCHANGED << order_lines, lineLocals, lineRaised, lineReturns,
                    line_log_buffer, processed_lines, response >>
    /\ UNCHANGED << reference_counter, odooProducts, odooBoms, orderFrame >>

\* lines 1657-1659: the order has no lines
OrderNotFound ==
    /\ mainPc = "prefetch"
    /\ order_lines = << >>
    /\ response' = [code |-> 404,
                    error |-> "Sale order not found or has no order lines"]
    /\ request_log' = request_log \o
            << LogRecord(0, 0, "Starting Odoo order processing"),
               LogRecord(0, 0, "Sale order not found or has no order lines") >>
    /\ mainPc' = "done"
    /\ UNCHANGED << order_lines, order_lines_by_id, bom_by_product, bom_by_template, linePc,
                    lineLocals, lineRaised, lineReturns, line_log_buffer,
                    parallel_results, processed_lines >>
    /\ UNCHANGED << reference_counter, odooProducts, odooBoms, orderFrame >>

\* ---- process_order_line_parallel
Min(a, b) == IF a <= b THEN a ELSE b

\* lines 347: display_name or name
CurrentProductName(product_info) ==
    IF Truthy(product_info.display_name) /\ product_info.display_name.s # << >>
    THEN product_info.display_name.s
    ELSE product_info.name

\* lines 413-424: the BOM of the line from the prefetched lookups, << >> if none
FindBom(order_line, product_info, by_product, by_template) ==
    LET product_id == order_line.product_id.items[1]
        product_tmpl_id == product_info.product_tmpl_id.items[1]
        is_variant == Len(order_line.product_template_attribute_value_ids) > 0
        from_product == IF is_variant /\ product_id \in DOMAIN by_product
                        THEN << by_product[product_id] >>
                        ELSE << >>
    IN  IF from_product # << >> THEN from_product
        ELSE IF product_tmpl_id \in DOMAIN by_template
        THEN << by_template[product_tmpl_id] >>
        ELSE << >>

\* a variant that tests product_updatable before the quantity
CheckLineUpdatableFirst(order_line, product_info, by_product, by_template) ==
    IF ~order_line.product_updatable THEN "unupdatable"
    ELSE IF order_line.product_uom_qty # 100 THEN "preset"
    ELSE IF FindBom(order_line, product_info, by_product, by_template) = << >>
    THEN "no_bom"
    ELSE "process"

\* a variant that lets a preset quantity through to the processing
CheckLinePresetProcessed(order_line, product_info, by_product, by_template) ==
    IF ~order_line.product_updatable THEN "unupdatable"
    ELSE IF FindBom(order_line, product_info, by_product, by_template) = << >>
    THEN "no_bom"
    ELSE "process"

\* lines 381-436: the first test that applies decides what happens to the line
CheckLine(order_line, product_info, by_product, by_template) ==
    IF order_line.product_uom_qty # 100 THEN "preset"
    ELSE IF ~order_line.product_updatable THEN "unupdatable"
    ELSE IF FindBom(order_line, product_info, by_product, by_template) = << >>
    THEN "no_bom"
    ELSE "process"

\* str(q) of a float held in hundredths: "2.0", "2.5", "2.25"
FloatStr(q) ==
    Decimal(q \div 100) \o << "." >> \o
        (IF q % 10 = 0 THEN Decimal((q % 100) \div 10)
         ELSE Decimal((q % 100) \div 10) \o Decimal(q % 10))

\* lines 384-390
PresetResult(order_line_id, current_product_name, quantity) ==
    [order_line_id |-> order_line_id,
     original_product |-> current_product_name,
     status |-> "skipped",
     reason |-> << "Preset product (quantity: " >> \o FloatStr(quantity)
                    \o << ")" >>,
     chatter_message |-> "has quantity (preset)"]

\* lines 400-406
UnupdatableResult(order_line_id, original_product_name) ==
    [order_line_id |-> order_line_id,
     original_product |-> original_product_name,
     status |-> "skipped",
     reason |-> << "Product is unupdatable (variant)" >>,
     chatter_message |-> "is a variant and cannot be updated"]

\* lines 427-434
NoBomResult(order_line_id, original_product_name, is_variant) ==
    [order_line_id |-> order_line_id,
     original_product |-> original_product_name,
     status |-> "skipped",
     reason |-> << "No ", IF is_variant THEN "variant-specific" ELSE "template",
                   " BOM found" >>]

\* a variant whose handler reports a fixed text instead of the exception's
ErrorResultGeneric(order_line_id, e) ==
    [order_line_id |-> order_line_id,
     original_product |-> << "Unknown (error during processing)" >>,
     original_product_code |-> "",
     status |-> "error",
     reason |-> << "Unknown error" >>]

\* lines 560-566: the result built by the except clause, e is str(e)
ErrorResult(order_line_id, e) ==
    [order_line_id |-> order_line_id,
     original_product |-> << "Unknown (error during processing)" >>,
     original_product_code |-> "",
     status |-> "error",
     reason |-> << e >>]

\* lines 532-552
SuccessResult(order_line, product_info, locals) ==
    [order_line_id |-> order_line.id,
     original_product |-> locals.original_product_name,
     original_product_code |-> product_info.default_code,
     new_product_id |-> locals.new_product_id,
     new_product_tmpl_id |-> locals.new_product_tmpl_id,
     new_product_name |-> locals.product_name,
     new_product_reference |-> locals.product_name,
     bom_id |-> locals.bom_id,
     width |-> product_info.x_studio_width,
     height |-> product_info.x_studio_height,
     price |-> order_line.price_unit,
     quantity |-> order_line.product_uom_qty,
     components |-> locals.components,
     skipped_components |-> locals.skipped_components,
     bom_components_count |-> Len(locals.bom_components),
     bom_operations_count |-> Len(locals.bom_operations),
     initial_cost |-> 0,
     new_cost |-> 0,
     status |-> "success"]

\* the prefetched order line and product of the worker of line index l
LineData(l) == order_lines_by_id[LineId(l)]
LineProduct(l) == OrderProduct(LineData(l).product_id.items[1])

\* the workers that hold a thread of the pool
Running == { i \in Lines : linePc[i] \notin {"unsubmitted", "pending", "returned"} }

\* return (result, line_log_buffer.getvalue()) once the records are logged
ReturnFrom(l, result, records) ==
    /\ line_log_buffer' = [line_log_buffer EXCEPT ![l] = @ \o records]
    /\ lineReturns' = [lineReturns EXCEPT ![l] =
                          Append(@, << result, line_log_buffer[l] \o records >>)]
    /\ linePc' = [linePc EXCEPT ![l] = "returned"]

\* lines 332-441: a worker takes the line, recovers the original name and
\* decides: skipped with a reason, or on to the copy of the BOM
StartLine(l) ==
    /\ mainPc = "pool"
    /\ linePc[l] = "pending"
    /\ Cardinality(Running) < Min(MAX_WORKERS, Len(order_lines))
    /\ LET order_line == LineData(l)
           product_info == LineProduct(l)
           current_product_name == CurrentProductName(product_info)
           recovered == RecoverOriginalName(current_product_name,
                            product_info.description_sale, order_line.name)
           original_product_name == recovered.name
           decision == CheckLine(order_line, product_info, bom_by_product,
                                 bom_by_template)
           records == << "Processing order line", "Extracted product specs" >>
                      \o (IF recovered.source = "warning"
                          THEN << "Re-execution detected but couldn't recover original name" >>
                          ELSE << >>)
       IN  /\ lineLocals' = [lineLocals EXCEPT ![l].original_product_name =
                                original_product_name]
           /\ CASE decision = "preset" ->
                     ReturnFrom(l, PresetResult(order_line.id, current_product_name,
                                                order_line.product_uom_qty),
                                records \o << "Skipping: preset",
                                              "Completed processing order line" >>)
                [] decision = "unupdatable" ->
                     ReturnFrom(l, UnupdatableResult(order_line.id,
                                                     original_product_name),
                                records \o << "Processing blocked: not updatable",
                                              "Completed processing order line" >>)
                [] decision = "no_bom" ->
                     ReturnFrom(l, NoBomResult(order_line.id, original_product_name,
                                    Len(order_line.product_template_attribute_value_ids) > 0),
                                records \o << "No BOM found",
                                              "Completed processing order line" >>)
                [] decision = "process" ->
                     /\ line_log_buffer' = [line_log_buffer EXCEPT ![l] =
                                               @ \o records \o << "Found BOM" >>]
                     /\ linePc' = [linePc EXCEPT ![l] = "copy_components"]
                     /\ UNCHANGED lineReturns
    /\ UNCHANGED << order_lines, order_lines_by_id, mainPc, bom_by_product, bom_by_template,
                    lineRaised, parallel_results, processed_lines, request_log,
                    response >>
    /\ UNCHANGED << reference_counter, odooProducts, odooBoms, orderFrame >>

\* lines 447-475: the components copied from the lines of the found BOM; a
\* quantity of 1 is not copied
CopiedComponents(bom_data) ==
    [k \in 1..Len(bom_data.bom_line_ids) |->
        LET bom_line == BomLine(bom_data.bom_line_ids[k])
            component_info == ComponentProduct(bom_line.product_id.items[1])
        IN  Component(component_info.name, component_info.x_studio_product_code,
                      IF bom_line.product_qty # 100
                      THEN Num(bom_line.product_qty) ELSE NoQty)]

\* lines 702-790 for the components from i on; acc is
\* << bom_components, bom_operations, skipped_components >>
RECURSIVE AssembleLoop(_, _, _, _, _, _, _, _)
AssembleLoop(comps, i, by_ref, services, rules, surface, circumference, acc) ==
    IF i > Len(comps) THEN acc
    ELSE
      LET component == comps[i]
      IN  IF component.reference \notin DOMAIN by_ref
          THEN AssembleLoop(comps, i + 1, by_ref, services, rules, surface,
                            circumference,
                            << acc[1], acc[2], SkipEntry(acc[3], component) >>)
          ELSE
            LET component_info == by_ref[component.reference]
                quantity == ComponentQuantity(component, component_info,
                                              surface, circumference)
            IN  AssembleLoop(comps, i + 1, by_ref, services, rules, surface,
                             circumference,
                             << Append(acc[1], [product_id |-> component_info.id,
                                                product_qty |-> quantity]),
                                OperationsAfter(acc[2], component_info, quantity,
                                                services, rules),
                                acc[3] >>)

\* lines 658-790 of create_product_and_bom for one line: the three batched
\* reads and the loop
Assemble(comps, width_mm, height_mm) ==
    LET all_component_data == SearchReadComponents(comps)
        services == ById({ r \in CatalogServices :
                            r.id \in CollectServiceIds(all_component_data) })
        rules == ById({ r \in CatalogDurationRules :
                            r.id \in CollectDurationRuleIds(all_component_data) })
    IN  AssembleLoop(comps, 1, ByReference(all_component_data), services, rules,
                     (width_mm * height_mm) \div 10000,
                     (2 * (width_mm + height_mm)) \div 10,
                     << << >>, << >>, << >> >>)

\* lines 201-241: "[code] name" of the visible components, in the order of
\* the records read
RECURSIVE VisibleList(_, _)
VisibleList(ids, references) ==
    IF ids = << >> THEN << >>
    ELSE LET comp_info == ComponentProduct(Head(ids))
         IN  (IF /\ comp_info.x_studio_product_code \in references
                 /\ comp_info.x_studio_product_code \in VisibleCodes
              THEN << << "[", comp_info.x_studio_product_code, "] ",
                         comp_info.name >> >>
              ELSE << >>) \o VisibleList(Tail(ids), references)

ComponentIdsInOrder == << 11, 12, 13, 14, 15, 17 >>

ComponentReferences(comps) ==
    { comps[k].reference : k \in { j \in 1..Len(comps) : comps[j].reference # "" } }

\* what str(e) is when the remote call of a step raises
FaultMessage(pc) == "Fault in " \o pc

\* lines 447-482: read the BOM lines and the component products, copy the
\* components, generate the reference of the new product.  The wall clock
\* stands still during a request: what its race with the counter does to
\* the references is the subject of SpecRef.
CopyComponents(l) ==
    /\ linePc[l] = "copy_components"
    /\ LET bom_data == FindBom(LineData(l), LineProduct(l), bom_by_product,
                               bom_by_template)[1]
       IN  /\ reference_counter' = reference_counter + 1
           /\ lineLocals' = [lineLocals EXCEPT
                  ![l].components = CopiedComponents(bom_data),
                  ![l].product_name = Base36(clock + reference_counter + 1)]
    /\ line_log_buffer' = [line_log_buffer EXCEPT ![l] =
            @ \o << "Copied components from existing BOM",
                    "Generated product reference" >>]
    /\ linePc' = [linePc EXCEPT ![l] = "create_product"]
    /\ UNCHANGED << order_lines, order_lines_by_id, mainPc, bom_by_product, bom_by_template,
                    lineRaised, lineReturns, parallel_results, processed_lines,
                    request_log, response >>
    /\ UNCHANGED << odooProducts, odooBoms, orderFrame >>

\* lines 611-635: product.product create
CreateLineProduct(l) ==
    /\ linePc[l] = "create_product"
    /\ LET new_product_id == 100 + Len(odooProducts) + 1
           product_info == LineProduct(l)
       IN  /\ odooProducts' = Append(odooProducts,
                  [id |-> new_product_id,
                   name |-> lineLocals[l].product_name,
                   default_code |-> lineLocals[l].product_name,
                   product_tmpl_id |-> 1000 + new_product_id,
                   x_studio_width |-> product_info.x_studio_width,
                   x_studio_height |-> product_info.x_studio_height,
                   description_sale |->
                      IF lineLocals[l].original_product_name # << >>
                      THEN Str(OriginalPrefix \o lineLocals[l].original_product_name)
                      ELSE FalseVal,
                   route_ids |-> {}])
           /\ lineLocals' = [lineLocals EXCEPT ![l].new_product_id = new_product_id]
    /\ line_log_buffer' = [line_log_buffer EXCEPT ![l] =
            @ \o << "Starting product and BOM creation process",
                    "Product created" >>]
    /\ linePc' = [linePc EXCEPT ![l] = "assemble"]
    /\ UNCHANGED << order_lines, order_lines_by_id, mainPc, bom_by_product, bom_by_template,
                    lineRaised, lineReturns, parallel_results, processed_lines,
                    request_log, response >>
    /\ UNCHANGED << reference_counter, odooBoms, orderFrame >>

\* lines 658-815: the batched reads, the loop over the components, the read
\* of the template id and the write of the routes of the new product
AssembleAndSetRoutes(l) ==
    /\ linePc[l] = "assemble"
    /\ LET product_info == LineProduct(l)
           built == Assemble(lineLocals[l].components,
                             product_info.x_studio_width,
                             product_info.x_studio_height)
       IN  /\ lineLocals' = [lineLocals EXCEPT
                  ![l].bom_components = built[1],
                  ![l].bom_operations = built[2],
                  ![l].skipped_components = built[3]]
           /\ line_log_buffer' = [line_log_buffer EXCEPT ![l] =
                  @ \o << "Processing components for BOM" >>
                    \o [k \in 1..Len(built[3]) |-> "Component not found, skipping"]
                    \o << "Successfully set route_ids" >>]
    /\ odooProducts' = [odooProducts EXCEPT
            ![lineLocals[l].new_product_id - 100].route_ids = {1, 4}]
    /\ linePc' = [linePc EXCEPT ![l] = "create_bom"]
    /\ UNCHANGED << order_lines, order_lines_by_id, mainPc, bom_by_product, bom_by_template,
                    lineRaised, lineReturns, parallel_results, processed_lines,
                    request_log, response >>
    /\ UNCHANGED << reference_counter, odooBoms, orderFrame >>

\* a variant that goes on without the BOM
CreateLineBomSkipped(l) ==
    /\ linePc[l] = "create_bom"
    /\ linePc' = [linePc EXCEPT ![l] = "describe"]
    /\ UNCHANGED << order_lines, order_lines_by_id, mainPc, bom_by_product, bom_by_template,
                    lineLocals, lineRaised, lineReturns, line_log_buffer,
                    parallel_results, processed_lines, request_log, response >>
    /\ UNCHANGED << reference_counter, odooProducts, odooBoms, orderFrame >>

\* lines 818-838: mrp.bom create, and the return of create_product_and_bom
CreateLineBom(l) ==
    /\ linePc[l] = "create_bom"
    /\ LET bom_id == 200 + Len(odooBoms) + 1
       IN  /\ odooBoms' = Append(odooBoms,
                  [id |-> bom_id,
                   product_tmpl_id |-> 1000 + lineLocals[l].new_product_id,
                   routes_at_creation |->
                      odooProducts[lineLocals[l].new_product_id - 100].route_ids,
                   bom_line_ids |-> lineLocals[l].bom_components,
                   operation_ids |-> lineLocals[l].bom_operations])
           /\ lineLocals' = [lineLocals EXCEPT ![l].bom_id = bom_id]
    /\ line_log_buffer' = [line_log_buffer EXCEPT ![l] =
            @ \o << "BOM created" >>
              \o (IF lineLocals[l].skipped_components # << >>
                  THEN << "component(s) were skipped" >> ELSE << >>)]
    /\ linePc' = [linePc EXCEPT ![l] = "describe"]
    /\ UNCHANGED << order_lines, order_lines_by_id, mainPc, bom_by_product, bom_by_template,
                    lineRaised, lineReturns, parallel_results, processed_lines,
                    request_log, response >>
    /\ UNCHANGED << reference_counter, odooProducts, orderFrame >>

\* lines 497-512: read the template of the new product, list the visible
\* components (a failure of that read is caught inside the helper, which
\* then returns an empty list) and build the description, which
\* build_order_line_description_odoo reports on the module's logger
DescribeLine(l) ==
    /\ linePc[l] = "describe"
    /\ LET references == ComponentReferences(lineLocals[l].components)
           product_info == LineProduct(l)
       IN  \E visible_components \in
                { VisibleList(ComponentIdsInOrder, references), << >> } :
              /\ lineLocals' = [lineLocals EXCEPT
                    ![l].new_product_tmpl_id = 1000 + lineLocals[l].new_product_id,
                    ![l].new_order_line_description =
                        build_order_line_description_odoo(
                            lineLocals[l].original_product_name,
                            product_info.x_studio_width,
                            product_info.x_studio_height, visible_components)]
              /\ line_log_buffer' = [line_log_buffer EXCEPT ![l] =
                    @ \o << "New product template ID" >>
                      \o (IF references = {} THEN << >>
                          ELSE IF visible_components = << >>
                                  /\ VisibleList(ComponentIdsInOrder, references) # << >>
                          THEN << "Failed to batch check visibility" >>
                          ELSE << "Found visible component(s)" >>)]
    /\ request_log' = Append(request_log,
            LogRecord(l, 0, "Built Odoo order line description"))
    /\ linePc' = [linePc EXCEPT ![l] = "update_order_line"]
    /\ UNCHANGED << order_lines, order_lines_by_id, mainPc, bom_by_product, bom_by_template,
                    lineRaised, lineReturns, parallel_results, processed_lines,
                    response >>
    /\ UNCHANGED << reference_counter, odooProducts, odooBoms, orderFrame >>

\* lines 514-555: write the order line, build the result, return
UpdateOrderLine(l) ==
    /\ linePc[l] = "update_order_line"
    /\ order_lines' = [order_lines EXCEPT
            ![l].product_id = Many2one(lineLocals[l].new_product_id, "product"),
            ![l].name = lineLocals[l].new_order_line_description]
    /\ ReturnFrom(l, SuccessResult(LineData(l), LineProduct(l), lineLocals[l]),
                  << "Order line updated successfully",
                     "Completed processing order line" >>)
    /\ UNCHANGED << order_lines_by_id, mainPc, bom_by_product, bom_by_template, lineLocals,
                    lineRaised, parallel_results, processed_lines, request_log,
                    response >>
    /\ UNCHANGED << reference_counter, odooProducts, odooBoms, orderFrame >>

\* the positions whose remote calls can raise
FaultPoints ==
    {"copy_components", "create_product", "assemble", "create_bom", "describe",
     "update_order_line"}

\* lines 557-569: a remote call of the step raises; the except clause logs
\* the error, builds the error result and returns it
LineFault(l) ==
    /\ linePc[l] \in FaultPoints
    /\ lineRaised' = [lineRaised EXCEPT ![l] = << FaultMessage(linePc[l]) >>]
    /\ ReturnFrom(l, ErrorResult(LineData(l).id, FaultMessage(linePc[l])),
                  << "Error processing order line" >>)
    /\ UNCHANGED << order_lines, order_lines_by_id, mainPc, bom_by_product, bom_by_template,
                    lineLocals, parallel_results, processed_lines, request_log,
                    response >>
    /\ UNCHANGED << reference_counter, odooProducts, odooBoms, orderFrame >>

\* ---- handle_odoo_order after the submission
IsSuccess(line) == line.status = "success"
IsSkipped(line) == line.status = "skipped"

\* a variant that stores the tuple at the first free index, in the order of
\* completion
CollectInCompletionOrder(l) ==
    /\ mainPc = "pool"
    /\ linePc[l] = "returned"
    /\ \A i \in Lines : parallel_results[i] # lineReturns[l][1]
    /\ \E k \in Lines :
          /\ parallel_results[k] = << >>
          /\ \A j \in 1..(k - 1) : parallel_results[j] # << >>
          /\ parallel_results' = [parallel_results EXCEPT ![k] = lineReturns[l][1]]
    /\ UNCHANGED << order_lines, order_lines_by_id, mainPc, bom_by_product,
                    bom_by_template, linePc, lineLocals, lineRaised, lineReturns,
                    line_log_buffer, processed_lines, request_log, response >>
    /\ UNCHANGED << reference_counter, odooProducts, odooBoms, orderFrame >>

\* lines 1751-1755: as_completed hands over a finished future, whose tuple
\* is stored at the index of its line
Collect(l) ==
    /\ mainPc = "pool"
    /\ linePc[l] = "returned"
    /\ parallel_results[l] = << >>
    /\ parallel_results' = [parallel_results EXCEPT ![l] = lineReturns[l][1]]
    /\ UNCHANGED << order_lines, order_lines_by_id, mainPc, bom_by_product,
                    bom_by_template, linePc, lineLocals, lineRaised, lineReturns,
                    line_log_buffer, processed_lines, request_log, response >>
    /\ UNCHANGED << reference_counter, odooProducts, odooBoms, orderFrame >>

\* line 1763: every future is done and collected, the pool is left
PoolExit ==
    /\ mainPc = "pool"
    /\ \A i \in Lines : parallel_results[i] # << >>
    /\ request_log' = Append(request_log,
            LogRecord(0, 0, "Parallel processing complete, outputting logs in order"))
    /\ mainPc' = "flush"
    /\ UNCHANGED << order_lines, order_lines_by_id, bom_by_product,
                    bom_by_template, linePc, lineLocals, lineRaised, lineReturns,
                    line_log_buffer, parallel_results, processed_lines, response >>
    /\ UNCHANGED << reference_counter, odooProducts, odooBoms, orderFrame >>

\* lines 1767-1784: one turn of the sequential loop: the buffered records of
\* the line go to the request log, its result to processed_lines; the note
\* posted for a skipped line changes nothing here, whether it fails or not
FlushLine ==
    /\ mainPc = "flush"
    /\ Len(processed_lines) < Len(order_lines)
    /\ LET line_index == Len(processed_lines) + 1
           result == parallel_results[line_index][1]
           logs == parallel_results[line_index][2]
       IN  /\ request_log' = request_log \o
                  [k \in 1..Len(logs) |-> LogRecord(0, line_index, logs[k])]
           /\ processed_lines' = Append(processed_lines, result)
           /\ mainPc' = IF line_index = Len(order_lines) THEN "cost" ELSE "flush"
    /\ UNCHANGED << order_lines, order_lines_by_id, bom_by_product,
                    bom_by_template, linePc, lineLocals, lineRaised, lineReturns,
                    line_log_buffer, parallel_results, response >>
    /\ UNCHANGED << reference_counter, odooProducts, odooBoms, orderFrame >>

\* lines 1786-1837: the costs of the new templates, read before and after
\* the cost computation; the cost read back stands for the BOM's size
ComputeCosts ==
    /\ mainPc = "cost"
    /\ processed_lines' =
          [k \in 1..Len(processed_lines) |->
              IF IsSuccess(processed_lines[k])
              THEN [processed_lines[k] EXCEPT
                       !.initial_cost = 0,
                       !.new_cost = processed_lines[k].bom_components_count]
              ELSE processed_lines[k]]
    /\ request_log' = request_log \o
          (IF SelectSeq(processed_lines, IsSuccess) # << >>
           THEN << LogRecord(0, 0, "Computing BOM costs") >> ELSE << >>)
    /\ mainPc' = "respond"
    /\ UNCHANGED << order_lines, order_lines_by_id, bom_by_product,
                    bom_by_template, linePc, lineLocals, lineRaised, lineReturns,
                    line_log_buffer, parallel_results, response >>
    /\ UNCHANGED << reference_counter, odooProducts, odooBoms, orderFrame >>

\* lines 1839-2035: the price update, the summary, the attachments and the
\* note (their failures are caught), the response
Respond ==
    /\ mainPc = "respond"
    /\ LET successful_lines == SelectSeq(processed_lines, IsSuccess)
           skipped_lines == SelectSeq(processed_lines, IsSkipped)
       IN  response' =
              [code |-> 200,
               message |-> "Odoo order processing finished",
               processed_lines |-> Len(successful_lines),
               skipped_lines |-> Len(skipped_lines),
               product_ids |-> [k \in 1..Len(successful_lines) |->
                                   successful_lines[k].new_product_id],
               bom_ids |-> [k \in 1..Len(successful_lines) |->
                               successful_lines[k].bom_id],
               updated_order_id |-> 48,
               status |-> "success"]
    /\ request_log' = Append(request_log,
            LogRecord(0, 0, "Odoo order processing completed successfully"))
    /\ mainPc' = "done"
    /\ UNCHANGED << order_lines, order_lines_by_id, bom_by_product,
                    bom_by_template, linePc, lineLocals, lineRaised, lineReturns,
                    line_log_buffer, parallel_results, processed_lines >>
    /\ UNCHANGED << reference_counter, odooProducts, odooBoms, orderFrame >>

\* lines 2037-2058: a remote call of the request thread raises outside the
\* inner handlers (the connection and the prefetch, the two cost reads): the
\* request answers 500 with the message
RequestFault ==
    /\ \/ mainPc = "prefetch"
       \/ mainPc = "cost" /\ SelectSeq(processed_lines, IsSuccess) # << >>
    /\ response' = [code |-> 500, error |-> FaultMessage(mainPc),
                    status |-> "error"]
    /\ request_log' = Append(request_log,
            LogRecord(0, 0, "Error handling Odoo order"))
    /\ mainPc' = "done"
    /\ UNCHANGED << order_lines, order_lines_by_id, bom_by_product,
                    bom_by_template, linePc, lineLocals, lineRaised, lineReturns,
                    line_log_buffer, parallel_results, processed_lines >>
    /\ UNCHANGED << reference_counter, odooProducts, odooBoms, orderFrame >>

\* ---- the name recovery of lines 352-375 on inputs of its own
PR00012 == << "P", "R", "0", "0", "0", "1", "2" >>
XPR0001234 == << "X" >> \o PR000123 \o << "4" >>
Dim30x50 == << "(", "3", "0", ".", "0", "x", "5", "0", ".", "5", ")" >>
Materiaal == << " ", "-", " ", "M", "a", "t", "e", "r", "i", "a", "a", "l", ":", " ", "G", "L" >>

\* display_name or name of the product the line points at
RecoverNames == { Poster, PR00012, PR000123, XPR0001234 }

\* description_sale of that product: False when empty
RecoverDescriptions ==
    { FalseVal,
      Str(OriginalPrefix \o Poster),
      Str(OriginalPrefix \o << " " >> \o Canvas \o << " " >>),
      Str(OriginalPrefix \o << " " >>),
      Str(OriginalPrefix \o PR000123),
      Str(<< "o" >> \o Tail(OriginalPrefix) \o Poster),
      Str(Poster) }

\* name of the order line
RecoverLineDescriptions ==
    { << >>,
      Mirror,
      Mirror \o << " " >> \o Dim30x50,
      Mirror \o Dim30x50,
      Mirror \o << " " >> \o Dim30x50 \o Materiaal,
      Mirror \o << " ", "(", "3", "0", "x", "5", "0", ")", " " >> \o Dim30x50,
      Mirror \o << " ", "(", "3", "0", "x", ")" >>,
      PR000123 \o << " " >> \o Dim30x50,
      << " " >> \o Dim30x50,
      Dim30x50 }

NoName == [name |-> << >>, source |-> "none"]

IdleRecoverVars ==
    /\ recoverPc = "idle"
    /\ recover_input = << >>
    /\ recover_output = NoName

InitRecoverVars ==
    /\ recoverPc = "read"
    /\ recover_input \in
          [current_product_name : RecoverNames,
           product_description_sale : RecoverDescriptions,
           order_line_description : RecoverLineDescriptions]
    /\ recover_output = NoName

\* lines 352-375 of process_order_line_parallel
RecoverName ==
    /\ recoverPc = "read"
    /\ recover_output' =
          RecoverOriginalName(recover_input.current_product_name,
                              recover_input.product_description_sale,
                              recover_input.order_line_description)
    /\ recoverPc' = "done"
    /\ UNCHANGED recover_input
    /\ UNCHANGED << refVars, priceVars, bomVars, orderVars, reprocessVars, exportVars,
                 retryVars, routeVars >>

\* ---- handle_odoo_order called again for an order it has processed
\* the products of the catalog whose line is processed: they have a BOM
ReprocessProducts == { p \in OrderProducts : p.id \in {21, 22, 25} }

\* the wall clock moves on by at most this much between two requests
ClockSteps == {0, 1}

\* what the order line of a product reads before the first request
FirstLineNames(p) ==
    { p.name,
      build_order_line_description_odoo(p.name, p.x_studio_width, p.x_studio_height, << >>) }

\* lines 1686-1725 and 413-475 for the order of one line: the component
\* codes copied from the BOM found for the line
FirstReferences(p, line_name) ==
    LET order_line == OrderLine(LineId(1), p.id, 100, TRUE, line_name)
        boms == PrefetchedBoms(<< order_line >>)
    IN  { ComponentReferences(CopiedComponents(
              FindBom(order_line, p,
                      BuildBomLookups(all_boms, 1, << >>, << >>)[1],
                      BuildBomLookups(all_boms, 1, << >>, << >>)[2])[1])) :
            all_boms \in Orderings(boms) }

\* display_name of a product whose name and default_code are the reference
BracketedName(reference) == << "[" >> \o reference \o << "]", " " >> \o reference

IdleReprocessVars ==
    /\ rep_product = << >>
    /\ rep_line_name = << >>
    /\ rep_references = {}
    /\ rep_names = << >>

InitReprocessVars ==
    /\ rep_product \in ReprocessProducts
    /\ rep_line_name \in FirstLineNames(rep_product)
    /\ rep_references \in FirstReferences(rep_product, rep_line_name)
    /\ rep_names = << >>

\* one request for the order, none of whose calls fails: the line (quantity
\* 1, updatable, with a BOM) is processed.  Lines 347-375 recover the name,
\* 479 generates the reference, 611-635 create the product, 658-838 its BOM
\* from the components that resolve, 506-512 build the description, 516-525
\* point the line at the new product
Reprocess ==
    /\ Len(rep_names) < MaxPasses
    /\ LET current_product_name == CurrentProductName(rep_product)
           original_product_name ==
               RecoverOriginalName(current_product_name,
                                   rep_product.description_sale, rep_line_name).name
           product_name == Base36(clock + reference_counter + 1)
           visible == VisibleList(ComponentIdsInOrder, rep_references)
       IN  /\ \E display_name \in {FalseVal, Str(BracketedName(product_name))} :
                 rep_product' =
                    [id |-> 100 + Len(rep_names) + 1,
                     name |-> product_name,
                     display_name |-> display_name,
                     default_code |-> Str(product_name),
                     product_tmpl_id |-> Many2one(1100 + Len(rep_names) + 1, "product"),
                     description_sale |->
                        IF original_product_name # << >>
                        THEN Str(OriginalPrefix \o original_product_name)
                        ELSE FalseVal,
                     x_studio_width |-> rep_product.x_studio_width,
                     x_studio_height |-> rep_product.x_studio_height,
                     product_template_attribute_value_ids |-> << >>]
           /\ \E visible_components \in {visible, << >>} :
                 rep_line_name' =
                    build_order_line_description_odoo(original_product_name,
                        rep_product.x_studio_width, rep_product.x_studio_height,
                        visible_components)
           /\ rep_references' =
                 { r \in rep_references :
                     \E c \in CatalogComponents : c.x_studio_product_code = r }
           /\ rep_names' = Append(rep_names, original_product_name)
    /\ reference_counter' = reference_counter + 1
    /\ \E step \in ClockSteps : clock' = clock + step
    /\ UNCHANGED << reference_counter_lock, refPc, counter_value, timestamp,
                    calls, generated >>
    /\ UNCHANGED << priceVars, bomVars, orderVars, recoverVars, exportVars,
                    retryVars, routeVars >>

(***************************************************************************)
(* get_dimensions_from_config and generate_csv_direct                      *)
(***************************************************************************)
\* the default sizes in the order of the template, in tenths of a
\* centimetre: 29.7 cm is 297
dimension_cm_pairs ==
    << << 50, 50 >>, << 700, 700 >>, << 750, 750 >>, << 800, 800 >>,
       << 850, 850 >>, << 900, 900 >>, << 950, 950 >>, << 1000, 1000 >>,
       << 1050, 1050 >>, << 1100, 1100 >>, << 1150, 1150 >>,
       << 1200, 1200 >>, << 1250, 1250 >>, << 1300, 1300 >>,
       << 1350, 1350 >>, << 1400, 1400 >>, << 1450, 1450 >>,
       << 1500, 1500 >>, << 50, 75 >>, << 150, 225 >>, << 250, 375 >>,
       << 300, 450 >>, << 350, 525 >>, << 450, 675 >>, << 500, 750 >>,
       << 550, 825 >>, << 650, 975 >>, << 700, 1050 >>, << 760, 1125 >>,
       << 750, 1125 >>, << 850, 1275 >>, << 900, 1350 >>, << 950, 1425 >>,
       << 1000, 1500 >>, << 50, 70 >>, << 100, 130 >>, << 200, 270 >>,
       << 250, 330 >>, << 350, 470 >>, << 400, 530 >>, << 400, 600 >>,
       << 400, 530 >>, << 450, 600 >>, << 500, 670 >>, << 550, 730 >>,
       << 650, 870 >>, << 700, 930 >>, << 750, 1000 >>, << 800, 1070 >>,
       << 850, 1130 >>, << 900, 1200 >>, << 950, 1270 >>, << 1000, 1330 >>,
       << 1050, 1400 >>, << 1100, 1470 >>, << 1150, 1530 >>, << 75, 50 >>,
       << 150, 100 >>, << 225, 150 >>, << 300, 200 >>, << 375, 250 >>,
       << 450, 300 >>, << 525, 350 >>, << 600, 400 >>, << 675, 450 >>,
       << 750, 500 >>, << 825, 550 >>, << 900, 600 >>, << 975, 650 >>,
       << 1050, 700 >>, << 1125, 750 >>, << 1200, 800 >>, << 1275, 850 >>,
       << 1350, 900 >>, << 1425, 950 >>, << 1500, 1000 >>, << 67, 50 >>,
       << 133, 100 >>, << 200, 150 >>, << 267, 200 >>, << 333, 250 >>,
       << 400, 300 >>, << 467, 350 >>, << 533, 400 >>, << 600, 450 >>,
       << 660, 500 >>, << 730, 550 >>, << 800, 600 >>, << 860, 650 >>,
       << 930, 700 >>, << 1000, 750 >>, << 1060, 800 >>, << 1130, 850 >>,
       << 1200, 900 >>, << 1260, 950 >>, << 1330, 1000 >>, << 1400, 1050 >>,
       << 1460, 1100 >>, << 1530, 1150 >>, << 90, 130 >>, << 200, 280 >>,
       << 180, 130 >>, << 240, 180 >>, << 250, 200 >>, << 280, 200 >>,
       << 297, 210 >>, << 300, 240 >>, << 500, 400 >>, << 600, 500 >>,
       << 700, 500 >>, << 1000, 700 >>, << 130, 90 >>, << 100, 100 >>,
       << 105, 105 >>, << 100, 150 >>, << 130, 130 >>, << 250, 250 >>,
       << 130, 180 >>, << 150, 200 >>, << 150, 150 >>, << 350, 350 >>,
       << 180, 240 >>, << 200, 200 >>, << 450, 450 >>, << 200, 250 >>,
       << 550, 550 >>, << 200, 300 >>, << 210, 297 >>, << 600, 600 >>,
       << 650, 650 >>, << 700, 700 >>, << 240, 300 >>, << 300, 300 >>,
       << 300, 400 >>, << 300, 450 >>, << 400, 400 >>, << 400, 500 >>,
       << 400, 600 >>, << 500, 500 >>, << 500, 600 >>, << 500, 700 >>,
       << 600, 800 >>, << 600, 900 >>, << 700, 1000 >>, << 800, 1200 >> >>

\* width_mm = width_cm * 10 and height_mm = height_cm * 10 of every pair
get_default_dimensions ==
    [k \in 1..Len(dimension_cm_pairs) |->
        Dimension(dimension_cm_pairs[k][1], dimension_cm_pairs[k][2])]

\* one entry of the JSON list; a key that is missing holds NoQty
JsonEntry(width_mm, height_mm) == [width_mm |-> width_mm, height_mm |-> height_mm]

\* the text of x_studio_price_export_dimensions by what json.loads makes of
\* it: "invalid" (JSONDecodeError), "null", an "object" with so many keys,
\* or a "list" of entries
JsonText(json, keys, items) ==
    [tag |-> "str", json |-> json, keys |-> keys, items |-> items]

ConfigEntries ==
    { JsonEntry(Num(400), Num(400)), JsonEntry(Num(100), Num(200)),
      JsonEntry(Num(400), NoQty), JsonEntry(Str("400"), Num(400)) }

ConfigTexts ==
    { FalseVal, JsonText("invalid", 0, << >>), JsonText("null", 0, << >>),
      JsonText("object", 0, << >>), JsonText("object", 1, << >>) }
    \cup { JsonText("list", 0, items) : items \in SeqsUpTo(ConfigEntries, 2) }

\* x_configuration: its ids and the field of the first record
Configurations ==
    { [ids |-> << >>, x_studio_price_export_dimensions |-> FalseVal] }
    \cup { [ids |-> << 1 >>, x_studio_price_export_dimensions |-> text] :
             text \in ConfigTexts }

\* which remote call of get_dimensions_from_config raises, if any
DimensionFaults == {"none", "search", "read"}

\* lines 199-205 go through for the entry: both keys hold a number
EntryConverts(dim) == dim.width_mm.tag = "num" /\ dim.height_mm.tag = "num"

\* a variant that returns the entries converted before the malformed one
get_dimensions_from_config_partial(config, fault) ==
    IF fault = "search" \/ config.ids = << >> \/ fault = "read"
    THEN get_default_dimensions
    ELSE LET text == config.x_studio_price_export_dimensions
         IN  IF ~Truthy(text) \/ text.json # "list" THEN get_default_dimensions
             ELSE LET good == SelectSeq(text.items, EntryConverts)
                  IN  [k \in 1..Len(good) |->
                          Dimension(good[k].width_mm.n, good[k].height_mm.n)]

\* lines 166-216: the search and the read may raise (outer except); no
\* record, an empty field and a JSONDecodeError fall through to the default;
\* every other exception of the conversion (a value that is not iterable, an
\* entry without a key or with a value that is no number) reaches the outer
\* except
get_dimensions_from_config(config, fault) ==
    IF fault = "search" THEN get_default_dimensions
    ELSE IF config.ids = << >> THEN get_default_dimensions
    ELSE IF fault = "read" THEN get_default_dimensions
    ELSE
      LET text == config.x_studio_price_export_dimensions
      IN  IF ~Truthy(text) THEN get_default_dimensions
          ELSE IF text.json = "invalid" THEN get_default_dimensions
          ELSE IF text.json = "null" THEN get_default_dimensions
          ELSE IF text.json = "object"
          THEN IF text.keys = 0 THEN << >> ELSE get_default_dimensions
          ELSE IF \E k \in 1..Len(text.items) : ~EntryConverts(text.items[k])
          THEN get_default_dimensions
          ELSE [k \in 1..Len(text.items) |->
                   Dimension(text.items[k].width_mm.n, text.items[k].height_mm.n)]

NoConfiguration == [ids |-> << >>, x_studio_price_export_dimensions |-> FalseVal]
NoReturn == [tag |-> "none"]

IdleExportVars ==
    /\ x_configuration = NoConfiguration
    /\ dimension_results = << >>
    /\ exportPc = "idle"
    /\ export_products = << >>
    /\ all_pricelists = << >>
    /\ pricelists = << >>
    /\ export_dimensions = << >>
    /\ dimension_labels = << >>
    /\ export_margins = << >>
    /\ csv_results = << >>
    /\ export_return = NoReturn

\* calls of get_dimensions_from_config against one configuration
InitDimensionVars ==
    /\ x_configuration \in Configurations
    /\ dimension_results = << >>
    /\ exportPc = "idle"
    /\ export_products = << >>
    /\ all_pricelists = << >>
    /\ pricelists = << >>
    /\ export_dimensions = << >>
    /\ dimension_labels = << >>
    /\ export_margins = << >>
    /\ csv_results = << >>
    /\ export_return = NoReturn

\* dimensions = get_dimensions_from_config(models, uid)
GetDimensions(fault) ==
    /\ Len(dimension_results) < MaxDimCalls
    /\ dimension_results' =
          Append(dimension_results,
                 [fault |-> fault,
                  returned |-> get_dimensions_from_config(x_configuration, fault)])
    /\ UNCHANGED << x_configuration, exportPc, export_products, all_pricelists,
                    pricelists, export_dimensions, dimension_labels,
                    export_margins, csv_results, export_return >>
    /\ UNCHANGED << refVars, priceVars, bomVars, orderVars, recoverVars, reprocessVars,
                    retryVars, routeVars >>

\* ---- generate_csv_direct
UpperChars ==
    << "A", "B", "C", "D", "E", "F", "G", "H", "I", "J", "K", "L", "M", "N",
       "O", "P", "Q", "R", "S", "T", "U", "V", "W", "X", "Y", "Z" >>
LowerChars ==
    << "a", "b", "c", "d", "e", "f", "g", "h", "i", "j", "k", "l", "m", "n",
       "o", "p", "q", "r", "s", "t", "u", "v", "w", "x", "y", "z" >>

\* str.lower()
Lower(s) ==
    [i \in 1..Len(s) |->
        IF \E k \in 1..26 : UpperChars[k] = s[i]
        THEN LowerChars[CHOOSE k \in 1..26 : UpperChars[k] = s[i]]
        ELSE s[i]]

\* str.replace(' ', '_')
ReplaceBlanks(s) == [i \in 1..Len(s) |-> IF s[i] = " " THEN "_" ELSE s[i]]

\* the catalog of the export: products with a price computation and their
\* template, pricelists with their discount in percent
ExportProduct(tmpl_id, price_computation, service) ==
    [product_tmpl_id |-> Many2one(tmpl_id, "template"),
     x_studio_price_computation |-> price_computation,
     standard_price |-> Num(10),
     x_studio_associated_service |-> service,
     x_studio_associated_cost_per_employee_per_hour |-> Num(36)]

ExportProducts ==
    { ExportProduct(7, Str("Surface"), Framing),
      ExportProduct(8, Str("Circumference"), Framing),
      ExportProduct(9, Str("Surface"), FalseVal) }

ExportDurationRules ==
    << DurationRule(Framing, Num(10), Num(60)),
       DurationRule(Framing, Num(20), Num(120)),
       DurationRule(Framing, Num(200), Num(180)) >>

Pricelist(name, discount) == [name |-> name, x_studio_price_discount |-> discount]

DefaultList == << "D", "e", "f", "a", "u", "l", "t" >>
Retail == << "R", "e", "t", "a", "i", "l" >>
ProB == << "P", "r", "o", " ", "B" >>

\* a discount of -50, of 0, none, a surcharge, and a field that holds text
Pricelists ==
    { Pricelist(DefaultList, Num(0)),
      Pricelist(Retail, Num(0 - 50)),
      Pricelist(Retail, Num(0)),
      Pricelist(ProB, FalseVal),
      Pricelist(ProB, Num(20)),
      Pricelist(ProB, Str("n/a")) }

ExportConfigurations ==
    { NoConfiguration,
      [ids |-> << 1 >>, x_studio_price_export_dimensions |->
          JsonText("list", 0, << JsonEntry(Num(400), Num(400)),
                                 JsonEntry(Num(100), Num(200)) >>)],
      [ids |-> << 1 >>, x_studio_price_export_dimensions |->
          JsonText("list", 0, << JsonEntry(Num(400), NoQty) >>)] }

InitExportVars ==
    /\ x_configuration \in ExportConfigurations
    /\ dimension_results = << >>
    /\ exportPc = "fetch"
    /\ export_products \in SeqsUpTo(ExportProducts, MaxExportProducts)
    /\ all_pricelists \in SeqsUpTo(Pricelists, MaxPricelists)
    /\ pricelists = << >>
    /\ export_dimensions = << >>
    /\ dimension_labels = << >>
    /\ export_margins = << >>
    /\ csv_results = << >>
    /\ export_return = NoReturn

\* lines 590-593: the pricelists whose name is not 'default' in any case
NotDefault(p) == Lower(p.name) # Lower(DefaultList)

\* line 637: f"{dim[2]} x {dim[3]}"
DimensionLabel(dim) ==
    TenthsStr(dim[3]) \o << " ", "x", " " >> \o TenthsStr(dim[4])

\* a variant that takes the discount for the margin, sign unchanged
MarginOfDiscountUnsigned(pricelist) ==
    Rat(OrZero(pricelist.x_studio_price_discount), 100)

\* lines 646-650: raw_discount = discount or 0; margin = (raw_discount * -1) / 100
MarginOfDiscount(pricelist) ==
    Rat(OrZero(pricelist.x_studio_price_discount) * (0 - 1), 100)

\* the margin in hundredths, as compute_prices_vectorized takes it here
MarginHundredths(m) == (m.n * 100) \div m.d

\* a variant that writes str(p): a second decimal of zero is left out
FormatPriceRepr(cents) ==
    (IF cents < 0 THEN << "-" >> ELSE << >>)
        \o Decimal(Abs(cents) \div 100) \o << "." >>
        \o << DigitChars[((Abs(cents) % 100) \div 10) + 1] >>
        \o (IF Abs(cents) % 10 = 0 THEN << >> ELSE << DigitChars[(Abs(cents) % 10) + 1] >>)

\* line 674: f"{p:.2f}" of a price held in cents
FormatPrice(cents) ==
    (IF cents < 0 THEN << "-" >> ELSE << >>)
        \o Decimal(Abs(cents) \div 100) \o << "." >>
        \o << DigitChars[((Abs(cents) % 100) \div 10) + 1],
              DigitChars[(Abs(cents) % 10) + 1] >>

\* csv.writer(delimiter=',').writerow(cells) for cells that hold no comma,
\* quote or line end: the cells, commas between them, '\r\n' after them
RECURSIVE JoinCells(_)
JoinCells(cells) ==
    IF cells = << >> THEN << >>
    ELSE IF Len(cells) = 1 THEN cells[1]
    ELSE JoinCells(SubSeq(cells, 1, Len(cells) \div 2)) \o << "," >>
            \o JoinCells(SubSeq(cells, (Len(cells) \div 2) + 1, Len(cells)))

WriteRow(cells) == JoinCells(cells) \o << "\r\n" >>

\* lines 665-677: the data row of one product
DataRow(prod, dims, lookup, mrg) ==
    LET prices == compute_prices_vectorized(prod, dims, lookup, mrg)
    IN  << Decimal(prod.product_tmpl_id.items[1]) >>
            \o [k \in 1..Len(prices) |-> FormatPrice(prices[k])]

\* lines 655-681: header_row, then one row per product, in the buffer
RECURSIVE WriteRows(_, _, _, _)
WriteRows(prods, dims, lookup, mrg) ==
    IF prods = << >> THEN << >>
    ELSE WriteRow(DataRow(Head(prods), dims, lookup, mrg))
            \o WriteRows(Tail(prods), dims, lookup, mrg)

CsvContent(prods, dims, labels, lookup, mrg) ==
    WriteRow(<< << "product_tmpl_id" >> >> \o labels)
        \o WriteRows(prods, dims, lookup, mrg)

\* lines 688-689
CsvFilename(pl_name) ==
    << "justframeit_price_export_" >> \o Lower(ReplaceBlanks(pl_name))
        \o << "_", "timestamp", ".csv" >>

\* lines 543-637: the three reads, the filter, the dimensions, the labels
ExportFetch(fault) ==
    /\ exportPc = "fetch"
    /\ pricelists' = SelectSeq(all_pricelists, NotDefault)
    /\ export_dimensions' = get_dimensions_from_config(x_configuration, fault)
    /\ dimension_labels' =
          [k \in 1..Len(export_dimensions') |-> DimensionLabel(export_dimensions'[k])]
    /\ exportPc' = "loop"
    /\ UNCHANGED << x_configuration, dimension_results, export_products,
                    all_pricelists, export_margins, csv_results, export_return >>
    /\ UNCHANGED << refVars, priceVars, bomVars, orderVars, recoverVars, reprocessVars,
                    retryVars, routeVars >>

\* lines 700-704: one of the three reads raises; the exception is logged and
\* raised again
ExportFetchFault ==
    /\ exportPc = "fetch"
    /\ export_return' = [tag |-> "raised", results |-> << >>]
    /\ exportPc' = "done"
    /\ UNCHANGED << x_configuration, dimension_results, export_products,
                    all_pricelists, pricelists, export_dimensions,
                    dimension_labels, export_margins, csv_results >>
    /\ UNCHANGED << refVars, priceVars, bomVars, orderVars, recoverVars, reprocessVars,
                    retryVars, routeVars >>

\* a variant in which no discount makes the turn raise
DiscountNeverRaises(pricelist) == FALSE

\* lines 646-650: a discount that is text survives 'or 0', is repeated -1
\* times into '', and '' / 100 raises a TypeError
DiscountRaises(pricelist) == pricelist.x_studio_price_discount.tag = "str"

\* lines 643-691: one turn of the loop over the pricelists.  Nothing catches
\* the TypeError of line 650 before the handler of lines 700-704, which
\* raises it again: csv_results is lost with the frame
ExportPricelist ==
    /\ exportPc = "loop"
    /\ Len(csv_results) < Len(pricelists)
    /\ LET pricelist == pricelists[Len(csv_results) + 1]
           lookup == build_duration_lookup(ExportDurationRules)
       IN  IF DiscountRaises(pricelist)
           THEN /\ export_return' = [tag |-> "raised", results |-> << >>]
                /\ exportPc' = "done"
                /\ UNCHANGED << export_margins, csv_results >>
           ELSE /\ export_margins' = Append(export_margins, MarginOfDiscount(pricelist))
                /\ csv_results' = Append(csv_results,
                      [csv_content |->
                          CsvContent(export_products, export_dimensions,
                                     dimension_labels, lookup,
                                     MarginHundredths(MarginOfDiscount(pricelist))),
                       pl_name |-> pricelist.name,
                       csv_filename |-> CsvFilename(pricelist.name)])
                /\ UNCHANGED << exportPc, export_return >>
    /\ UNCHANGED << x_configuration, dimension_results, export_products,
                    all_pricelists, pricelists, export_dimensions, dimension_labels >>
    /\ UNCHANGED << refVars, priceVars, bomVars, orderVars, recoverVars, reprocessVars,
                    retryVars, routeVars >>

\* lines 693-698: pricelist_name is None, the list is returned
ExportReturn ==
    /\ exportPc = "loop"
    /\ Len(csv_results) = Len(pricelists)
    /\ export_return' = [tag |-> "returned", results |-> csv_results]
    /\ exportPc' = "done"
    /\ UNCHANGED << x_configuration, dimension_results, export_products,
                    all_pricelists, pricelists, export_dimensions,
                    dimension_labels, export_margins, csv_results >>
    /\ UNCHANGED << refVars, priceVars, bomVars, orderVars, recoverVars, reprocessVars,
                    retryVars, routeVars >>

(***************************************************************************)
(* process_pricelist_for_parallel: the retry loop of the legacy path       *)
(***************************************************************************)
\* line 1225 (price_export.py line 678)
max_retries == 3

NoWorkerReturn == [tag |-> "none", pricelist_name |-> "", d3_formula |-> << >>]

IdleRetryVars ==
    /\ retryPc = "idle"
    /\ retry_input = [pricelist_name |-> "", pricelist_row |-> 0,
                      connects |-> TRUE, generates |-> << >>]
    /\ attempt = 0
    /\ generate_calls = 0
    /\ sleeps = 0
    /\ worker_return = NoWorkerReturn

\* the rows of the pricelists in the template
PricelistRows == { << "Retail", 5 >>, << "Pro B", 6 >>, << "Museum", 12 >> }

\* whether get_uid and get_odoo_models answer, and whether each invocation
\* of generate_price_export_excel would return (TRUE) or raise (FALSE)
InitRetryVars ==
    /\ retryPc = "connect"
    /\ retry_input \in
          { [pricelist_name |-> pr[1], pricelist_row |-> pr[2],
             connects |-> c, generates |-> g] :
              pr \in PricelistRows, c \in BOOLEAN,
              g \in [1..max_retries -> BOOLEAN] }
    /\ attempt = 0
    /\ generate_calls = 0
    /\ sleeps = 0
    /\ worker_return = NoWorkerReturn

\* line 1216: f"=B{pricelist_row}"
D3Formula(pricelist_row) == << "=", "B" >> \o Decimal(pricelist_row)

\* a variant in which no attempt is the last one
LastAttemptNever(i) == FALSE

\* line 1235: attempt == max_retries - 1
LastAttempt(i) == i = max_retries - 1

\* lines 1212-1221 and 1246-1251: the connection; when it raises the outer
\* handler logs and raises again
RetryConnect ==
    /\ retryPc = "connect"
    /\ IF retry_input.connects
       THEN /\ retryPc' = "attempt"
            /\ UNCHANGED worker_return
       ELSE /\ retryPc' = "done"
            /\ worker_return' = [tag |-> "raised",
                                 pricelist_name |-> retry_input.pricelist_name,
                                 d3_formula |-> << >>]
    /\ UNCHANGED << retry_input, attempt, generate_calls, sleeps >>
    /\ UNCHANGED << refVars, priceVars, bomVars, orderVars, recoverVars, reprocessVars,
                    exportVars, routeVars >>

\* lines 1226-1244: one turn of `for attempt in range(max_retries)`: the
\* invocation, then the break and the return, or the raise of the last
\* attempt, or the sleep before the next turn
RetryAttempt ==
    /\ retryPc = "attempt"
    /\ attempt < max_retries
    /\ generate_calls' = generate_calls + 1
    /\ IF retry_input.generates[generate_calls + 1]
       THEN /\ worker_return' = [tag |-> "returned",
                                 pricelist_name |-> retry_input.pricelist_name,
                                 d3_formula |-> D3Formula(retry_input.pricelist_row)]
            /\ retryPc' = "done"
            /\ UNCHANGED << attempt, sleeps >>
       ELSE IF LastAttempt(attempt)
       THEN /\ worker_return' = [tag |-> "raised",
                                 pricelist_name |-> retry_input.pricelist_name,
                                 d3_formula |-> << >>]
            /\ retryPc' = "done"
            /\ UNCHANGED << attempt, sleeps >>
       ELSE /\ sleeps' = sleeps + 1
            /\ attempt' = attempt + 1
            /\ UNCHANGED << retryPc, worker_return >>
    /\ UNCHANGED retry_input
    /\ UNCHANGED << refVars, priceVars, bomVars, orderVars, recoverVars, reprocessVars,
                    exportVars, routeVars >>

(***************************************************************************)
(* generate_price_export: the route /generate-price-export-v2              *)
(***************************************************************************)
NoRouteResponse ==
    [code |-> 0, status |-> "", additional_csvs |-> << >>, total_csv_files |-> 0,
     pricelists_processed |-> 0]

IdleRouteVars ==
    /\ routePc = "idle"
    /\ route_catalog = << >>
    /\ all_pricelist_csvs = << >>
    /\ update_vals = {}
    /\ additional_csv_info = << >>
    /\ config_fields = {}
    /\ attachment_names = << >>
    /\ route_response = NoRouteResponse

\* the k-th pricelist of the catalog; the third one is the default one
RoutePricelist(k) ==
    IF k = 3 THEN Pricelist(DefaultList, Num(0))
    ELSE Pricelist(<< "L", "i", "s", "t", " " >> \o Decimal(k),
                   IF k % 2 = 0 THEN Num(0 - 50) ELSE FalseVal)

\* the catalog of a request: its pricelists, and the x_configuration record
\* with its dimension list or no record
InitRouteVars ==
    /\ routePc = "generate"
    /\ route_catalog \in
          { [k \in 1..n |-> RoutePricelist(k)] : n \in 0..MaxRoutePricelists }
    /\ all_pricelist_csvs = << >>
    /\ update_vals = {}
    /\ additional_csv_info = << >>
    /\ config_fields = {}
    /\ attachment_names = << >>
    /\ route_response = NoRouteResponse
    /\ x_configuration \in
          { NoConfiguration,
            [ids |-> << 1 >>, x_studio_price_export_dimensions |->
                JsonText("list", 0, << JsonEntry(Num(400), Num(400)) >>)] }
    /\ dimension_results = << >>
    /\ exportPc = "idle"
    /\ export_products \in { << >>, << ExportProduct(7, Str("Surface"), Framing) >> }
    /\ all_pricelists = << >>
    /\ pricelists = << >>
    /\ export_dimensions = << >>
    /\ dimension_labels = << >>
    /\ export_margins = << >>
    /\ csv_results = << >>
    /\ export_return = NoReturn

\* lines 543-698 of generate_csv_direct when no call raises: one entry per
\* pricelist that is not the default one
GenerateCsvDirect(prods, plists, config) ==
    LET kept == SelectSeq(plists, NotDefault)
        dims == get_dimensions_from_config(config, "none")
        labels == [k \in 1..Len(dims) |-> DimensionLabel(dims[k])]
        lookup == build_duration_lookup(ExportDurationRules)
    IN  [k \in 1..Len(kept) |->
            [csv_content |->
                CsvContent(prods, dims, labels, lookup,
                           MarginHundredths(MarginOfDiscount(kept[k]))),
             pl_name |-> kept[k].name,
             csv_filename |-> CsvFilename(kept[k].name)]]

\* base64.b64encode(data).decode('ascii'), kept as the text it encodes
Base64(data) == << "base64:" >> \o data

\* lines 1496-1497: the two fields of pricelist number csv_field_num
CsvField(csv_field_num) ==
    << "x_studio_price_list_" >> \o Decimal(csv_field_num) \o << "_csv" >>

CsvFilenameField(csv_field_num) == CsvField(csv_field_num) \o << "_filename" >>

\* lines 1490-1497: the values of the write, for the first five pricelists
UpdateVals(additional_csvs) ==
    UNION { { [field |-> CsvField(i), value |-> Base64(additional_csvs[i].csv_content)],
              [field |-> CsvFilenameField(i), value |-> additional_csvs[i].csv_filename] } :
            i \in { j \in 1..Len(additional_csvs) : j <= 5 } }

\* lines 1490-1503: one entry per pricelist, whatever its number
AdditionalCsvInfo(additional_csvs) ==
    [i \in 1..Len(additional_csvs) |->
        [pricelist_name |-> additional_csvs[i].pl_name,
         field |-> CsvField(i),
         filename |-> additional_csvs[i].csv_filename]]

ErrorResponse ==
    [code |-> 500, status |-> "error", additional_csvs |-> << >>,
     total_csv_files |-> 0, pricelists_processed |-> 0]

\* lines 1422-1446: the connection and generate_csv_direct
RouteGenerate ==
    /\ routePc = "generate"
    /\ all_pricelist_csvs' =
          GenerateCsvDirect(export_products, route_catalog, x_configuration)
    /\ routePc' = "prepare"
    /\ UNCHANGED << route_catalog, update_vals, additional_csv_info, config_fields,
                    attachment_names, route_response >>
    /\ UNCHANGED << refVars, priceVars, bomVars, orderVars, recoverVars, reprocessVars,
                    exportVars, retryVars >>

\* lines 1447-1505: the counts, the search of the configuration record
\* (none: 'No x_configuration record found' is raised), update_vals and
\* additional_csv_info
RoutePrepare ==
    /\ routePc = "prepare"
    /\ IF x_configuration.ids = << >>
       THEN /\ route_response' = ErrorResponse
            /\ routePc' = "done"
            /\ UNCHANGED << update_vals, additional_csv_info >>
       ELSE /\ update_vals' = UpdateVals(all_pricelist_csvs)
            /\ additional_csv_info' = AdditionalCsvInfo(all_pricelist_csvs)
            /\ routePc' = "write"
            /\ UNCHANGED route_response
    /\ UNCHANGED << route_catalog, all_pricelist_csvs, config_fields, attachment_names >>
    /\ UNCHANGED << refVars, priceVars, bomVars, orderVars, recoverVars, reprocessVars,
                    exportVars, retryVars >>

\* lines 1507-1511: the write of update_vals, if there is anything to write
RouteWrite ==
    /\ routePc = "write"
    /\ config_fields' =
          { e \in config_fields : \A u \in update_vals : u.field # e.field }
              \cup update_vals
    /\ routePc' = "attach"
    /\ UNCHANGED << route_catalog, all_pricelist_csvs, update_vals,
                    additional_csv_info, attachment_names, route_response >>
    /\ UNCHANGED << refVars, priceVars, bomVars, orderVars, recoverVars, reprocessVars,
                    exportVars, retryVars >>

\* lines 1517-1549: one attachment per CSV file, then the log attachment
RouteAttach ==
    /\ routePc = "attach"
    /\ attachment_names' =
          [k \in 1..Len(all_pricelist_csvs) |-> all_pricelist_csvs[k].csv_filename]
              \o << << "price_export_logs_", "timestamp", ".txt" >> >>
    /\ routePc' = "respond"
    /\ UNCHANGED << route_catalog, all_pricelist_csvs, update_vals,
                    additional_csv_info, config_fields, route_response >>
    /\ UNCHANGED << refVars, priceVars, bomVars, orderVars, recoverVars, reprocessVars,
                    exportVars, retryVars >>

\* lines 1551-1639: response_data, the route log, the chatter message and
\* the return
RouteRespond ==
    /\ routePc = "respond"
    /\ route_response' =
          [code |-> 200, status |-> "success",
           additional_csvs |-> additional_csv_info,
           total_csv_files |-> Len(all_pricelist_csvs),
           pricelists_processed |-> Len(SelectSeq(route_catalog, NotDefault))]
    /\ routePc' = "done"
    /\ UNCHANGED << route_catalog, all_pricelist_csvs, update_vals,
                    additional_csv_info, config_fields, attachment_names >>
    /\ UNCHANGED << refVars, priceVars, bomVars, orderVars, recoverVars, reprocessVars,
                    exportVars, retryVars >>

\* lines 1641-1663: a remote call of the step raises; the handler answers
\* 500 with the error
RouteFault ==
    /\ routePc \in {"generate", "prepare", "attach", "respond"}
          \/ (routePc = "write" /\ update_vals # {})
    /\ route_response' = ErrorResponse
    /\ routePc' = "done"
    /\ UNCHANGED << route_catalog, all_pricelist_csvs, update_vals,
                    additional_csv_info, config_fields, attachment_names >>
    /\ UNCHANGED << refVars, priceVars, bomVars, orderVars, recoverVars, reprocessVars,
                    exportVars, retryVars >>

(***************************************************************************)
(* Specifications                                                          *)
(***************************************************************************)
NextRef ==
    \/ \E t \in Threads : RefCall(t)
    \/ \E t \in Threads : RefAcquire(t)
    \/ \E t \in Threads : RefIncrement(t)
    \/ \E t \in Threads : RefReadClock(t)
    \/ \E t \in Threads : RefReturn(t)
    \/ ClockTick

InitLookup ==
    /\ InitRefIdle
    /\ IdleBomVars
    /\ IdleOrderVars
    /\ IdleRecoverVars
    /\ IdleReprocessVars
    /\ IdleExportVars
    /\ IdleRetryVars /\ IdleRouteVars
    /\ duration_rules \in SeqsUpTo(LookupRuleSet, MaxRules)
    /\ product = NoProduct
    /\ dimensions = << >>
    /\ margin = 0
    /\ pricePc = "input"
    /\ duration_lookup = << >>
    /\ query = << "", 0 >>
    /\ fast_result = 0
    /\ scan_result = 0
    /\ vector_prices = << >>
    /\ scalar_prices = << >>

InitPrice ==
    /\ InitRefIdle
    /\ IdleBomVars
    /\ IdleOrderVars
    /\ IdleRecoverVars
    /\ IdleReprocessVars
    /\ IdleExportVars
    /\ IdleRetryVars /\ IdleRouteVars
    /\ duration_rules \in SeqsUpTo(PriceRuleSet, MaxRules)
    /\ product \in Products
    /\ dimensions \in DimensionLists
    /\ margin \in Margins
    /\ pricePc = "input"
    /\ duration_lookup = << >>
    /\ query = << "", 0 >>
    /\ fast_result = 0
    /\ scan_result = 0
    /\ vector_prices = << >>
    /\ scalar_prices = << >>

InitRef ==
    InitRefVars /\ IdlePriceVars /\ IdleBomVars /\ IdleOrderVars /\ IdleRecoverVars /\ IdleReprocessVars
    /\ IdleExportVars
    /\ IdleRetryVars /\ IdleRouteVars

SpecRef == InitRef /\ [][NextRef]_vars

InitBom ==
    InitRefIdle /\ IdlePriceVars /\ InitBomVars /\ IdleOrderVars /\ IdleRecoverVars /\ IdleReprocessVars
    /\ IdleExportVars
    /\ IdleRetryVars /\ IdleRouteVars

NextBom ==
    \/ CreateProduct
    \/ FetchComponents
    \/ FetchServices
    \/ FetchDurationRules
    \/ ProcessComponent
    \/ ReadTemplate
    \/ SetRoutes
    \/ CreateBom
    \/ BomRemoteFailure

SpecBom == InitBom /\ [][NextBom]_vars

NextLookup ==
    \/ BuildDurationLookup
    \/ \E sn \in LookupServiceNames, q \in LookupQuantities : LookupFast(sn, q)
    \/ LookupScan

SpecLookup == InitLookup /\ [][NextLookup]_vars

NextPrice ==
    \/ BuildDurationLookup
    \/ ComputePricesVectorized
    \/ ComputePrice

SpecPrice == InitPrice /\ [][NextPrice]_vars

InitOrder ==
    InitRefIdle /\ IdlePriceVars /\ IdleBomVars /\ InitOrderVars /\ IdleRecoverVars /\ IdleReprocessVars
    /\ IdleExportVars
    /\ IdleRetryVars /\ IdleRouteVars

NextOrder ==
    \/ Prefetch
    \/ OrderNotFound
    \/ \E l \in Lines : StartLine(l)
    \/ \E l \in Lines : CopyComponents(l)
    \/ \E l \in Lines : CreateLineProduct(l)
    \/ \E l \in Lines : AssembleAndSetRoutes(l)
    \/ \E l \in Lines : CreateLineBom(l)
    \/ \E l \in Lines : DescribeLine(l)
    \/ \E l \in Lines : UpdateOrderLine(l)
    \/ \E l \in Lines : LineFault(l)
    \/ \E l \in Lines : Collect(l)
    \/ PoolExit
    \/ FlushLine
    \/ ComputeCosts
    \/ Respond
    \/ RequestFault

SpecOrder == InitOrder /\ [][NextOrder]_vars

InitRecover ==
    /\ InitRefIdle /\ IdlePriceVars /\ IdleBomVars /\ IdleOrderVars
    /\ InitRecoverVars /\ IdleReprocessVars /\ IdleExportVars
    /\ IdleRetryVars /\ IdleRouteVars

NextRecover == RecoverName

SpecRecover == InitRecover /\ [][NextRecover]_vars

InitReprocess ==
    /\ InitRefVars /\ IdlePriceVars /\ IdleBomVars /\ IdleOrderVars
    /\ IdleRecoverVars /\ InitReprocessVars /\ IdleExportVars
    /\ IdleRetryVars /\ IdleRouteVars

NextReprocess == Reprocess

SpecReprocess == InitReprocess /\ [][NextReprocess]_vars

InitDimensions ==
    /\ InitRefIdle /\ IdlePriceVars /\ IdleBomVars /\ IdleOrderVars
    /\ IdleRecoverVars /\ IdleReprocessVars /\ InitDimensionVars
    /\ IdleRetryVars /\ IdleRouteVars

NextDimensions == \E fault \in DimensionFaults : GetDimensions(fault)

SpecDimensions == InitDimensions /\ [][NextDimensions]_vars

InitExport ==
    /\ InitRefIdle /\ IdlePriceVars /\ IdleBomVars /\ IdleOrderVars
    /\ IdleRecoverVars /\ IdleReprocessVars /\ InitExportVars
    /\ IdleRetryVars /\ IdleRouteVars

NextExport ==
    \/ \E fault \in DimensionFaults : ExportFetch(fault)
    \/ ExportFetchFault
    \/ ExportPricelist
    \/ ExportReturn

SpecExport == InitExport /\ [][NextExport]_vars

InitRetry ==
    /\ InitRefIdle /\ IdlePriceVars /\ IdleBomVars /\ IdleOrderVars
    /\ IdleRecoverVars /\ IdleReprocessVars /\ IdleExportVars
    /\ InitRetryVars /\ IdleRouteVars

NextRetry ==
    \/ RetryConnect
    \/ RetryAttempt

InitRoute ==
    /\ InitRefIdle /\ IdlePriceVars /\ IdleBomVars /\ IdleOrderVars
    /\ IdleRecoverVars /\ IdleReprocessVars /\ IdleRetryVars /\ InitRouteVars

NextRoute ==
    \/ RouteGenerate
    \/ RoutePrepare
    \/ RouteWrite
    \/ RouteAttach
    \/ RouteRespond
    \/ RouteFault

SpecRoute == InitRoute /\ [][NextRoute]_vars

\* the worker process runs on until the function returns or raises
SpecRetry == InitRetry /\ [][NextRetry]_vars /\ WF_vars(NextRetry)

(***************************************************************************)
(* Claims about generate_product_reference                                 *)
(***************************************************************************)
\* C1: no two calls of generate_product_reference, in any interleaving of
\* the threads of one process, return the same reference string.
C1_NoDuplicateReference ==
    \A i, j \in 1..Len(generated) :
        i # j => generated[i][2] # generated[j][2]

(***************************************************************************)
(* Claims about the duration lookup and the price computation              *)
(***************************************************************************)
\* the rules of a named service, by position in duration_rules
RulesOf(sn) ==
    { i \in 1..Len(duration_rules) :
        get_service_name(duration_rules[i].x_associated_service) = sn }

ThresholdOf(i) == RuleQty(duration_rules[i])
DurationOf(i) == OrZero(duration_rules[i].x_duurtijd_totaal)

SetMin(S) == CHOOSE x \in S : \A y \in S : x <= y
SetMax(S) == CHOOSE x \in S : \A y \in S : y <= x

LookupDone == pricePc \in {"fast", "scan"}

\* C3: for a service with at least one rule whose threshold is >= q, the
\* index lookup returns the duration of a rule of that service with the
\* smallest threshold that is >= q.
C3_SmallestThresholdAtLeast ==
    LookupDone =>
        LET sn == query[1]
            q == query[2]
            atLeast == { i \in RulesOf(sn) : ThresholdOf(i) >= q }
        IN  (sn # "" /\ atLeast # {}) =>
                \E i \in atLeast :
                    /\ ThresholdOf(i) = SetMin({ ThresholdOf(j) : j \in atLeast })
                    /\ fast_result = DurationOf(i)

\* thresholds [1,5,10], durations [10,20,30], q = 3: the lookup has returned 20
C3_Witness ==
    /\ pricePc = "fast"
    /\ duration_rules = << DurationRule(Framing, Num(1), Num(10)),
                           DurationRule(Framing, Num(5), Num(20)),
                           DurationRule(Framing, Num(10), Num(30)) >>
    /\ query = << "Framing", 3 >>
    /\ fast_result = 20

\* C4: for a service with at least one rule but none with threshold >= q,
\* the index lookup returns the duration of a rule with the largest
\* threshold of that service, also when all thresholds are zero or missing.
C4_FallbackLargestThreshold ==
    LookupDone =>
        LET sn == query[1]
            q == query[2]
            own == RulesOf(sn)
        IN  (sn # "" /\ own # {} /\ \A i \in own : ThresholdOf(i) < q) =>
                \E i \in own :
                    /\ ThresholdOf(i) = SetMax({ ThresholdOf(j) : j \in own })
                    /\ fast_result = DurationOf(i)

\* C2: compute_prices_vectorized(product, dims, build_duration_lookup(rules),
\* margin)[i] equals compute_price(product, dims[i], rules, margin) for all i.
C2_VectorizedEqualsScalar ==
    pricePc = "priced" =>
        \A i \in 1..Len(dimensions) : vector_prices[i] = scalar_prices[i]

\* n / d rounded to the nearest integer, a tie to the even one
RoundHalfEven(n, d) ==
    LET lo == n \div d
        r == n % d
    IN  IF 2 * r < d THEN lo
        ELSE IF 2 * r > d THEN lo + 1
        ELSE IF lo % 2 = 0 THEN lo ELSE lo + 1

\* round((value * cost_basis + duration * cost_per_hour / 3600) * (1 + margin), 2)
\* in cents, with value and margin in hundredths
PriceFormula(value, cost_basis, cost_per_hour, rules, service_name, mrg) ==
    LET duration == lookup_service_duration(service_name, value, rules)
    IN  RoundHalfEven((36 * value * cost_basis + duration * cost_per_hour)
                        * (100 + mrg), 3600)

MethodOf(prod) == get_service_name(prod.x_studio_price_computation)

PriceAsClaimed(prod, dimension, valueOfOther) ==
    PriceFormula(
        IF MethodOf(prod) = "Circumference" THEN dimension[6]
        ELSE IF MethodOf(prod) = "Surface" THEN dimension[5]
        ELSE valueOfOther,
        OrZero(prod.standard_price),
        OrZero(prod.x_studio_associated_cost_per_employee_per_hour),
        duration_rules,
        get_service_name(prod.x_studio_associated_service),
        margin)

ScenarioRules ==
    << DurationRule(Framing, Num(10), Num(60)),
       DurationRule(Framing, Num(20), Num(120)) >>

IsScenario(i) ==
    /\ product = Product(Str("Surface"), Framing)
    /\ duration_rules = ScenarioRules
    /\ dimensions[i] = Dimension(400, 400)
    /\ margin = 50

\* C8 as stated: base cost and lookup value are circumference_m for a
\* Perimeter product, surface_m2 for an Area product and 1 for any other.
C8_Original ==
    pricePc = "priced" =>
        \A i \in 1..Len(dimensions) :
            scalar_prices[i] = PriceAsClaimed(product, dimensions[i], 100)

\* C8 amended: compute_price returns round((base_cost + labor_cost) *
\* (1 + margin), 2) with base_cost = cost_basis * circumference_m for a
\* Perimeter product and cost_basis * surface_m2 for every other product,
\* the duration looked up with that same value, labor_cost = duration *
\* cost_per_hour / 3600; the 400x400 scenario gives 4.20.
C8_Amended ==
    pricePc = "priced" =>
        \A i \in 1..Len(dimensions) :
            /\ scalar_prices[i] =
                    PriceAsClaimed(product, dimensions[i], dimensions[i][5])
            /\ IsScenario(i) => scalar_prices[i] = 420

C8_Witness ==
    /\ pricePc = "priced"
    /\ IsScenario(1)
    /\ scalar_prices[1] = 420

(***************************************************************************)
(* Claims about create_product_and_bom                                     *)
(***************************************************************************)
InCatalog(reference) ==
    \E r \in CatalogComponents : r.x_studio_product_code = reference

CatalogRecord(reference) ==
    CHOOSE r \in CatalogComponents : r.x_studio_product_code = reference

\* the requested components among the first n that the catalog knows / does
\* not know, in request order
ResolvedUpTo(n) ==
    LET Known(c) == InCatalog(c.reference)
    IN  SelectSeq(SubSeq(components, 1, n), Known)

UnresolvedUpTo(n) ==
    LET Unknown(c) == ~InCatalog(c.reference)
    IN  SelectSeq(SubSeq(components, 1, n), Unknown)

\* the quantity the claim gives a resolved component, in hundredths
ExpectedQuantity(c) ==
    LET method == CatalogRecord(c.reference).x_studio_price_computation
    IN  IF c.qty # NoQty /\ c.qty.n # 100 THEN c.qty.n
        ELSE IF method = Str("Surface") THEN (width * height) \div 10000
        ELSE IF method = Str("Circumference") THEN (2 * (width + height)) \div 10
        ELSE 100

\* C5: the quantity of every resolved component is a supplied 'qty' that is
\* not 1, whatever the pricing method; otherwise surface_m2 for 'Surface',
\* circumference_m for 'Circumference' and 1 for any other method.
C5_QuantitySelection ==
    LET resolved == ResolvedUpTo(bomIndex)
    IN  /\ Len(bom_components) = Len(resolved)
        /\ \A k \in 1..Len(resolved) :
              bom_components[k].product_qty = ExpectedQuantity(resolved[k])

\* a 'Surface' component with qty 2.5 has its BOM line, with quantity 2.5
C5_Witness ==
    /\ bomPc = "done"
    /\ \E k \in 1..Len(components) :
          /\ components[k].qty = Num(250)
          /\ \A j \in 1..Len(components) : InCatalog(components[j].reference)
          /\ Len(bom_components) = Len(components)
          /\ CatalogRecord(components[k].reference).x_studio_price_computation
                = Str("Surface")
          /\ bom_components[k].product_qty = 250
          /\ surface_m2 # 250

\* C6: a component whose reference is absent from the batch is appended to
\* the skipped list (name, reference, reason) and the loop continues: BOM
\* lines plus skipped entries equal the requested components, and the BOM is
\* created from the resolved ones.
C6_SkipDontFail ==
    /\ bomPc \in {"loop", "set_routes", "create_bom", "done"} =>
          /\ Len(bom_components) + Len(skipped_components) = bomIndex
          /\ skipped_components =
                LET un == UnresolvedUpTo(bomIndex)
                IN  [k \in 1..Len(un) |->
                        [name |-> un[k].name, reference |-> un[k].reference,
                         reason |-> "Not found in Odoo"]]
    /\ bomPc = "done" =>
          /\ Len(odooBoms) = 1
          /\ Len(odooBoms[1].bom_line_ids) + Len(bomReturn[5]) = Len(components)
          /\ bomReturn[3] = Len(ResolvedUpTo(Len(components)))
          /\ bomReturn[5] = skipped_components
          /\ [k \in 1..Len(odooBoms[1].bom_line_ids) |->
                    odooBoms[1].bom_line_ids[k].product_id]
                = LET res == ResolvedUpTo(Len(components))
                  IN  [k \in 1..Len(res) |-> CatalogRecord(res[k].reference).id]

\* one known and one unknown reference: one BOM line, one skipped entry
C6_Witness ==
    /\ bomPc = "done"
    /\ Len(components) = 2
    /\ Len(skipped_components) = 1
    /\ Len(odooBoms[1].bom_line_ids) = 1

TotalCalls ==
    bomCalls.create_product + bomCalls.component_lookup + bomCalls.service_read
        + bomCalls.rule_read + bomCalls.template_read + bomCalls.route_write
        + bomCalls.bom_create

\* C7: whatever the number of components, exactly one batched component
\* lookup, at most one batched service read and at most one batched
\* duration-rule read are issued, and no more than seven remote calls in all.
C7_BatchedCalls ==
    /\ bomCalls.component_lookup <= 1
    /\ bomCalls.service_read <= 1
    /\ bomCalls.rule_read <= 1
    /\ TotalCalls <= 7
    /\ bomPc \in {"fetch_services", "fetch_rules", "loop", "set_routes",
                  "create_bom", "done"} => bomCalls.component_lookup = 1

\* two components with the same reference: one call of each kind
C7_Witness ==
    /\ bomPc = "done"
    /\ Len(components) = 2
    /\ components[1].reference = components[2].reference
    /\ bomCalls.component_lookup = 1
    /\ bomCalls.service_read = 1
    /\ bomCalls.rule_read = 1

\* ---- claims about process_order_line_parallel and handle_odoo_order
\* the prefetch is through and the lines were handed to the pool
Submitted == order_lines_by_id # << >>
Returned(l) == linePc[l] = "returned"
ResultOf(l) == lineReturns[l][1][1]

\* the catalog holds a BOM bound to the product of the line as prefetched, or
\* a BOM of that product's template
ExistingBoms(l) ==
    { b \in CatalogBoms :
        \/ Truthy(b.product_id)
              /\ b.product_id.items[1] = LineData(l).product_id.items[1]
        \/ b.product_tmpl_id.items[1] = LineProduct(l).product_tmpl_id.items[1] }

\* the outcome the rules name for a line, in their order
OutcomeByRule(l) ==
    IF lineRaised[l] # << >> THEN "error"
    ELSE IF LineData(l).product_uom_qty # 100 THEN "preset"
    ELSE IF ~LineData(l).product_updatable THEN "unupdatable"
    ELSE IF ExistingBoms(l) = {} THEN "no_bom"
    ELSE "success"

\* the outcome a returned result stands for
OutcomeOfResult(r) ==
    IF r.status = "error" THEN "error"
    ELSE IF r.status = "success" THEN "success"
    ELSE IF r.status = "skipped" /\ r.reason[1] = "Preset product (quantity: "
    THEN "preset"
    ELSE IF r.status = "skipped" /\ r.reason[1] = "Product is unupdatable (variant)"
    THEN "unupdatable"
    ELSE IF r.status = "skipped" /\ r.reason[1] = "No " /\ r.reason[3] = " BOM found"
    THEN "no_bom"
    ELSE "none"

\* C9: every order line handed to process_order_line_parallel returns at
\* most one result, a line that has returned has exactly one, and that
\* result is the outcome of the first rule that applies: an exception gives
\* error; else a quantity other than 1 gives skipped (preset); else a
\* product that is not updatable gives skipped (unupdatable); else no
\* existing BOM gives skipped (no BOM); else success.  Once the pool is
\* left, no line is without a result.
C9_OneOutcomeByPriority ==
    Submitted =>
      /\ \A l \in Lines :
            /\ Len(lineReturns[l]) <= 1
            /\ Returned(l) <=> Len(lineReturns[l]) = 1
            /\ Returned(l) => OutcomeOfResult(ResultOf(l)) = OutcomeByRule(l)
      /\ mainPc \in {"flush", "cost", "respond", "done"} =>
            \A l \in Lines : Returned(l)

\* a line with quantity 2 that is not updatable and has no BOM is skipped as
\* preset, next to a line that is processed
C9_Witness ==
    /\ Len(order_lines) = 2
    /\ mainPc = "flush"
    /\ LineData(1).product_uom_qty = 200
    /\ ~LineData(1).product_updatable
    /\ ExistingBoms(1) = {}
    /\ OutcomeOfResult(ResultOf(1)) = "preset"
    /\ OutcomeOfResult(ResultOf(2)) = "success"

\* C10: a failure at a step of one order line makes the result of that line
\* 'error' with the failure's message as reason, and only of that line: a
\* line none of whose steps failed ends with the outcome of its own rules,
\* and once the sequential loop is through, processed_lines holds the result
\* of every line of the order, at the line's position.
C10_FailureIsolated ==
    Submitted =>
      /\ \A l \in Lines :
            /\ lineRaised[l] # << >> =>
                  /\ Returned(l)
                  /\ ResultOf(l).status = "error"
                  /\ ResultOf(l).reason = lineRaised[l]
                  /\ ResultOf(l).order_line_id = LineId(l)
            /\ Returned(l) /\ lineRaised[l] = << >> =>
                  /\ ResultOf(l).status # "error"
                  /\ OutcomeOfResult(ResultOf(l)) = OutcomeByRule(l)
            /\ parallel_results[l] # << >> =>
                  Returned(l) /\ parallel_results[l] = lineReturns[l][1]
      /\ mainPc \in {"cost", "respond", "done"} =>
            /\ Len(processed_lines) = Len(order_lines)
            /\ \A l \in Lines :
                  /\ processed_lines[l].order_line_id = LineId(l)
                  /\ processed_lines[l].status = ResultOf(l).status
                  /\ processed_lines[l].status = "error" <=> lineRaised[l] # << >>
                  /\ processed_lines[l].status = "error" =>
                        processed_lines[l].reason = lineRaised[l]

\* the first line fails after its product was created, the second line is
\* processed, and both are in processed_lines
C10_Witness ==
    /\ Len(order_lines) = 2
    /\ mainPc = "cost"
    /\ lineRaised[1] = << FaultMessage("create_bom") >>
    /\ processed_lines[1].status = "error"
    /\ processed_lines[1].reason = << FaultMessage("create_bom") >>
    /\ lineRaised[2] = << >>
    /\ processed_lines[2].status = "success"

\* ---- claims about the response of handle_odoo_order
\* the request has answered after its sequential loop went through every line
Answered ==
    /\ mainPc = "done"
    /\ order_lines # << >>
    /\ Len(processed_lines) = Len(order_lines)

AllLinesFailed == \A k \in 1..Len(processed_lines) : processed_lines[k].status = "error"

\* C11: the answer of handle_odoo_order for an order reports an overall
\* failure (status 'error') exactly when every line of the order ended in
\* error; with at least one line that did not fail the answer is the
\* summary with status 'success'.
C11_FailureIffAllLinesFail ==
    Answered => (response.status = "error" <=> AllLinesFailed)

\* C12: the summary that handle_odoo_order answers with accounts for every
\* line of the order: the counts it carries sum to the number of order
\* lines, so that a line that ended in error is counted too.
C12_CountsCoverEveryLine ==
    Answered /\ response.code = 200 =>
        response.processed_lines + response.skipped_lines = Len(order_lines)

\* C13: the records of the request log that come from the processing of an
\* order line are written by the request thread, after the pool was left,
\* in the order of the lines: while the pool is running no record of a line
\* is in the request log, no worker ever writes to it, and the blocks of
\* the lines follow one another in line order.
C13_LogsBufferedPerLine ==
    /\ \A k \in 1..Len(request_log) :
          /\ request_log[k].thread = 0
          /\ request_log[k].line # 0 => mainPc # "pool"
    /\ \A j, k \in 1..Len(request_log) :
          j < k /\ request_log[j].line # 0 /\ request_log[k].line # 0 =>
              request_log[j].line <= request_log[k].line

\* ---- claims about the name recovery
\* what follows 'Original: ' in the stored description, stripped; empty when
\* the description is missing or does not start with 'Original: '
NameFromDescription(description_sale) ==
    IF description_sale = FalseVal THEN << >>
    ELSE IF ~StartsWith(description_sale.s, OriginalPrefix) THEN << >>
    ELSE Strip(SubSeq(description_sale.s, Len(OriginalPrefix) + 1, Len(description_sale.s)))

\* the prefixes of the line's description that a '(WxH)' group follows,
\* blanks between them aside
NamesBeforeDimensions(description) ==
    { k \in 1..Len(description) : DimensionSuffixAt(description, k + 1) }

\* the shortest such prefix, stripped; empty when there is none
NameFromOrderLine(description) ==
    IF NamesBeforeDimensions(description) = {} THEN << >>
    ELSE Strip(SubSeq(description, 1, SetMin(NamesBeforeDimensions(description))))

\* C14: when the current product name holds the generated-reference
\* pattern ('PR' and 6 digits), the original name is taken from the
\* product's description_sale when that starts with 'Original: ' and names
\* something; failing that, from the order line's description, as what
\* precedes its '(WxH)' dimension group, when that names something other
\* than a generated reference; failing both, it is the current name and the
\* warning is logged.  When the current name does not hold the pattern it
\* is used unchanged, without a warning.
C14_NameRecoveryPriority ==
    recoverPc = "done" =>
      LET current == recover_input.current_product_name
          stored == NameFromDescription(recover_input.product_description_sale)
          extracted == NameFromOrderLine(recover_input.order_line_description)
          warned == recover_output.source = "warning"
      IN  IF ~SearchPrPattern(current)
          THEN recover_output.name = current /\ ~warned
          ELSE IF stored # << >>
          THEN recover_output.name = stored /\ ~warned
          ELSE IF extracted # << >> /\ ~SearchPrPattern(extracted)
          THEN recover_output.name = extracted /\ ~warned
          ELSE recover_output.name = current /\ warned

\* a generated name whose product stores 'Original: Poster' while the order
\* line reads 'Mirror (30.0x50.5) - Materiaal: GL': the name is Poster
C14_Witness ==
    /\ recoverPc = "done"
    /\ recover_input.current_product_name = PR000123
    /\ recover_input.product_description_sale = Str(OriginalPrefix \o Poster)
    /\ recover_input.order_line_description = Mirror \o << " " >> \o Dim30x50 \o Materiaal
    /\ recover_output.name = Poster
    /\ recover_output.source = "description_sale"

\* ---- claims about reprocessing
\* the line points at a product that a former request created: its name is
\* a generated reference and its description_sale is 'Original: N'
StoredOriginalName ==
    SubSeq(rep_product.description_sale.s, Len(OriginalPrefix) + 1,
           Len(rep_product.description_sale.s))

\* C15: every request that processes the order line again uses the original
\* name N of the request before it, which create_product_and_bom stored as
\* 'Original: N' on the product the line points at: the name is the same in
\* every request, the product each request creates stores 'Original: N' and
\* the description written to the order line begins with N.
C15_ReprocessingRecoversName ==
    /\ \A k \in 2..Len(rep_names) : rep_names[k] = rep_names[1]
    /\ Len(rep_names) >= 1 =>
          /\ StoredOriginalName = rep_names[1]
          /\ StartsWith(rep_line_name, rep_names[1] \o << " ", "(" >>)

\* ---- claims about the BOM a line is processed with
\* the BOMs of the catalog bound to the product of the line
VariantBoms(l) ==
    { b \in CatalogBoms :
        Truthy(b.product_id)
          /\ b.product_id.items[1] = LineData(l).product_id.items[1] }

\* the BOMs of the template of that product that are bound to no product
TemplateBoms(l) ==
    { b \in CatalogBoms :
        ~Truthy(b.product_id)
          /\ b.product_tmpl_id.items[1] = LineProduct(l).product_tmpl_id.items[1] }

\* the worker of the line has copied the components of a BOM
HasCopied(l) == lineLocals[l].product_name # << >>
CopiedFrom(l, b) == lineLocals[l].components = CopiedComponents(b)

\* C16: a line whose product has a BOM bound to that product is processed
\* with that BOM; a line is processed with a template-level BOM only when
\* no BOM is bound to its product; and a line is skipped for want of a BOM
\* only when its product has neither.
C16_VariantBomPreferred ==
    Submitted =>
      \A l \in Lines :
        /\ HasCopied(l) /\ VariantBoms(l) # {} =>
              \E b \in VariantBoms(l) : CopiedFrom(l, b)
        /\ HasCopied(l) /\ (\E b \in TemplateBoms(l) : CopiedFrom(l, b)) =>
              VariantBoms(l) = {}
        /\ Returned(l) /\ OutcomeOfResult(ResultOf(l)) = "no_bom" =>
              VariantBoms(l) = {} /\ TemplateBoms(l) = {}

(***************************************************************************)
(* The tables of generate_csv_direct                                       *)
(***************************************************************************)
\* the pieces of a text between its separators, cut at the separator next
\* to the middle first
RECURSIVE Split(_, _)
Split(text, sep) ==
    IF \A k \in 1..Len(text) : text[k] # sep THEN << text >>
    ELSE LET mid == (Len(text) + 1) \div 2
             p == IF \E k \in mid..Len(text) : text[k] = sep
                  THEN CHOOSE k \in mid..Len(text) :
                          text[k] = sep /\ \A q \in mid..(k - 1) : text[q] # sep
                  ELSE CHOOSE k \in 1..(mid - 1) :
                          text[k] = sep /\ \A q \in (k + 1)..(mid - 1) : text[q] # sep
         IN  Split(SubSeq(text, 1, p - 1), sep)
                \o Split(SubSeq(text, p + 1, Len(text)), sep)

\* the rows of a table, each a sequence of cells: every row ends with a
\* line end, cells are separated by commas
TableRows(content) ==
    LET ended == Split(content, "\r\n")
    IN  [k \in 1..(Len(ended) - 1) |-> Split(ended[k], ",")]

IsDigits(text) ==
    /\ text # << >>
    /\ \A k \in 1..Len(text) : \E d \in 1..10 : DigitChars[d] = text[k]

\* an optional sign, digits, a point, exactly two digits
TwoDecimals(cell) ==
    /\ Len(cell) >= 4
    /\ cell[Len(cell) - 2] = "."
    /\ IsDigits(SubSeq(cell, Len(cell) - 1, Len(cell)))
    /\ IsDigits(SubSeq(cell, IF cell[1] = "-" THEN 2 ELSE 1, Len(cell) - 3))

DigitValue(c) == (CHOOSE d \in 1..10 : DigitChars[d] = c) - 1

RECURSIVE DigitsValue(_)
DigitsValue(text) ==
    IF text = << >> THEN 0
    ELSE DigitsValue(SubSeq(text, 1, Len(text) - 1)) * 10 + DigitValue(text[Len(text)])

\* the amount a cell of two decimals denotes, in cents
CellCents(cell) ==
    IF cell[1] = "-"
    THEN 0 - DigitsValue(SelectSeq(Tail(cell), LAMBDA c : c # "."))
    ELSE DigitsValue(SelectSeq(cell, LAMBDA c : c # "."))

\* the label of a dimension: '{width_cm} x {height_cm}'
LabelOf(dim) ==
    LET cm(t) == Decimal(t \div 10) \o << "." >> \o Decimal(t % 10)
    IN  cm(dim[3]) \o << " ", "x", " " >> \o cm(dim[4])

TableShape(k) ==
    LET table == TableRows(csv_results[k].csv_content)
        n == Len(export_dimensions)
        prices(i) ==
            compute_prices_vectorized(export_products[i], export_dimensions,
                build_duration_lookup(ExportDurationRules),
                MarginHundredths(export_margins[k]))
    IN  /\ Len(table) = 1 + Len(export_products)
        /\ Len(table[1]) = 1 + n
        /\ table[1][1] = << "product_tmpl_id" >>
        /\ \A j \in 1..n : table[1][j + 1] = LabelOf(export_dimensions[j])
        /\ \A i \in 1..Len(export_products) :
              /\ Len(table[i + 1]) = 1 + n
              /\ table[i + 1][1] = Decimal(export_products[i].product_tmpl_id.items[1])
              /\ \A j \in 1..n :
                    /\ TwoDecimals(table[i + 1][j + 1])
                    /\ CellCents(table[i + 1][j + 1]) = prices(i)[j]

\* C17: every table generate_csv_direct produces has a header row of the
\* product identifier column followed by one label '{width_cm} x {height_cm}'
\* per dimension, in the order of the dimension catalog, and one data row per
\* product with the product's identifier and one price per dimension, 1 + n
\* cells, each price written with exactly two decimals; what is returned
\* holds one table per pricelist that is not the default one, in order.
C17_TableShape ==
    /\ \A k \in 1..Len(csv_results) :
          /\ csv_results[k].pl_name = pricelists[k].name
          /\ TableShape(k)
    /\ export_return.tag = "returned" =>
          /\ export_return.results = csv_results
          /\ Len(csv_results) = Len(pricelists)
          /\ Len(pricelists) =
                Cardinality({ k \in 1..Len(all_pricelists) :
                                all_pricelists[k].name # DefaultList })

\* two tables of two products and two configured dimensions are returned
C17_Witness ==
    /\ export_return.tag = "returned"
    /\ Len(export_return.results) = 2
    /\ Len(export_products) = 2
    /\ export_products[1] # export_products[2]
    /\ Len(export_dimensions) = 2
    /\ export_return.results[1].csv_content # export_return.results[2].csv_content
    /\ \E j \in 1..2 :
          CellCents(TableRows(export_return.results[1].csv_content)[2][j + 1]) > 0

\* C18: the margin of a pricelist is its discount, sign reversed, over a
\* hundred: a discount of -50 gives one half, a discount of 0 or none gives 0.
C18_MarginFromDiscount ==
    \A k \in 1..Len(export_margins) :
        LET discount == pricelists[k].x_studio_price_discount
            m == export_margins[k]
        IN  /\ m.d > 0
            /\ discount.tag = "num" => m.n * 100 = (0 - discount.n) * m.d
            /\ discount = Num(0 - 50) => m.n * 2 = m.d
            /\ discount \in { Num(0), FalseVal } => m.n = 0

\* a pricelist with a discount of -50 and one without a discount were handled
C18_Witness ==
    /\ export_return.tag = "returned"
    /\ \E k \in 1..Len(export_margins) :
          /\ pricelists[k].x_studio_price_discount = Num(0 - 50)
          /\ export_margins[k].n * 2 = export_margins[k].d
    /\ \E k \in 1..Len(export_margins) :
          /\ pricelists[k].x_studio_price_discount = FalseVal
          /\ export_margins[k].n = 0

(***************************************************************************)
(* The dimensions of a price export                                        *)
(***************************************************************************)
\* the configuration gives a dimension list: the record exists, both remote
\* calls answer, the field holds JSON text of a collection, and every entry
\* of it has a number for width_mm and for height_mm
ConfigurationParses(config, fault) ==
    /\ fault = "none"
    /\ config.ids # << >>
    /\ config.x_studio_price_export_dimensions.tag = "str"
    /\ \/ /\ config.x_studio_price_export_dimensions.json = "list"
          /\ \A k \in 1..Len(config.x_studio_price_export_dimensions.items) :
                LET entry == config.x_studio_price_export_dimensions.items[k]
                IN  entry.width_mm.tag = "num" /\ entry.height_mm.tag = "num"
       \/ /\ config.x_studio_price_export_dimensions.json = "object"
          /\ config.x_studio_price_export_dimensions.keys = 0

ConfiguredDimensions(config) ==
    LET entries == config.x_studio_price_export_dimensions.items
    IN  [k \in 1..Len(entries) |->
            << entries[k].width_mm.n, entries[k].height_mm.n,
               entries[k].width_mm.n, entries[k].height_mm.n,
               (entries[k].width_mm.n * entries[k].height_mm.n) \div 10000,
               (2 * (entries[k].width_mm.n + entries[k].height_mm.n)) \div 10 >>]

\* C19: every call of get_dimensions_from_config returns a list: the
\* dimensions of the configuration, in its order, when the record exists and
\* its field parses; the default set of get_default_dimensions in every
\* other case (no record, empty field, JSON that does not parse, a malformed
\* entry, a remote call that raises), the same list on every call.
C19_DimensionsNeverFail ==
    \A k \in 1..Len(dimension_results) :
        LET call == dimension_results[k]
        IN  /\ call.returned \in Seq(Seq(Int))
            /\ IF ConfigurationParses(x_configuration, call.fault)
               THEN call.returned = ConfiguredDimensions(x_configuration)
               ELSE /\ call.returned = get_default_dimensions
                    /\ \A j \in 1..Len(dimension_results) :
                          ~ConfigurationParses(x_configuration, dimension_results[j].fault)
                              => dimension_results[j].returned = call.returned

\* a list with a malformed second entry gave the default set, twice
C19_Witness ==
    /\ x_configuration.ids # << >>
    /\ x_configuration.x_studio_price_export_dimensions =
          JsonText("list", 0, << JsonEntry(Num(400), Num(400)), JsonEntry(Num(400), NoQty) >>)
    /\ Len(dimension_results) = 2
    /\ dimension_results[1].fault = "none"
    /\ dimension_results[2].fault = "none"
    /\ dimension_results[1].returned = get_default_dimensions
    /\ dimension_results[2].returned = dimension_results[1].returned
    /\ Len(dimension_results[1].returned) = 145

(***************************************************************************)
(* Failures while the price lists are produced                             *)
(***************************************************************************)
\* the pricelists of the export whose production fails: the discount is text
FailingPricelists ==
    { k \in 1..Len(pricelists) :
        pricelists[k].x_studio_price_discount \notin { Num(n) : n \in -100..100 } \cup { FalseVal } }

\* C20: when the production of one pricelist fails, the pricelists that did
\* not fail are still produced and returned.
C20_FailureContained ==
    exportPc = "done" /\ FailingPricelists # { } =>
        /\ export_return.tag = "returned"
        /\ \A k \in (1..Len(pricelists)) \ FailingPricelists :
              \E r \in 1..Len(export_return.results) :
                  export_return.results[r].pl_name = pricelists[k].name

\* C20, as the code has it: when the production of one pricelist fails,
\* generate_csv_direct raises and returns no pricelist at all, the ones
\* produced before the failure included; it returns its tables, one per
\* pricelist, only when no pricelist fails.
C20_FailureFailsExport ==
    /\ exportPc = "done" /\ FailingPricelists # { } =>
          /\ export_return.tag = "raised"
          /\ export_return.results = << >>
    /\ export_return.tag = "returned" =>
          /\ FailingPricelists = { }
          /\ Len(export_return.results) = Len(pricelists)
    /\ \A k \in FailingPricelists : Len(csv_results) < k

\* the second of two pricelists failed after the table of the first was made
C20_Witness ==
    /\ exportPc = "done"
    /\ Len(pricelists) = 2
    /\ FailingPricelists = { 2 }
    /\ Len(csv_results) = 1
    /\ csv_results[1].pl_name = pricelists[1].name
    /\ export_return.tag = "raised"
    /\ export_return.results = << >>

(***************************************************************************)
(* The operations of create_product_and_bom                                *)
(***************************************************************************)
\* the duration rules of a component that the catalog holds
OwnRules(c) ==
    { r \in CatalogDurationRules :
        \E k \in 1..Len(CatalogRecord(c.reference).x_studio_associated_service_duration_rule) :
            CatalogRecord(c.reference).x_studio_associated_service_duration_rule[k] = r.id }

\* the component has a service, the catalog holds the service and at least
\* one of the component's duration rules
HasOperation(c) ==
    /\ CatalogRecord(c.reference).x_studio_associated_service.tag = "list"
    /\ \E sv \in CatalogServices :
          sv.id = CatalogRecord(c.reference).x_studio_associated_service.items[1]
    /\ OwnRules(c) # {}

ServiceOf(c) ==
    CHOOSE sv \in CatalogServices :
        sv.id = CatalogRecord(c.reference).x_studio_associated_service.items[1]

\* the duration of the rule with the smallest threshold >= the component's
\* quantity, of the rule with the largest threshold if there is none
ExpectedDuration(c) ==
    LET q == ExpectedQuantity(c)
        qualifying == { r \in OwnRules(c) : r.x_studio_quantity >= q }
    IN  IF qualifying # {}
        THEN (CHOOSE r \in qualifying :
                \A o \in qualifying : r.x_studio_quantity <= o.x_studio_quantity).x_duurtijd_totaal
        ELSE (CHOOSE r \in OwnRules(c) :
                \A o \in OwnRules(c) : r.x_studio_quantity >= o.x_studio_quantity).x_duurtijd_totaal

OperatedUpTo(n) == SelectSeq(ResolvedUpTo(n), HasOperation)

\* C21: the operation of a component has the duration of the rule, among
\* the component's own duration rules, with the smallest threshold >= the
\* component's final quantity, of the rule with the largest threshold when
\* no threshold is that large; the cycle time stored is that duration
\* divided by 60.
C21_OperationDuration ==
    /\ Len(bom_operations) = Len(OperatedUpTo(bomIndex))
    /\ \A k \in 1..Len(bom_operations) :
          /\ bom_operations[k].time_cycle_manual.d > 0
          /\ bom_operations[k].time_cycle_manual.n * 60
                = ExpectedDuration(OperatedUpTo(bomIndex)[k])
                    * bom_operations[k].time_cycle_manual.d
    /\ bomPc = "done" => odooBoms[1].operation_ids = bom_operations

\* glazing of a 200 x 400 sheet takes the rule of 0.10 (both rules qualify),
\* glazing with a supplied quantity of 2.5 the rule of 0.20 (none qualifies)
C21_Witness ==
    /\ bomPc = "done"
    /\ width = 200 /\ height = 400
    /\ Len(components) = 2
    /\ components[1] = Component("GL", "GL", NoQty)
    /\ components[2] = Component("GL", "GL", Num(250))
    /\ Len(odooBoms[1].operation_ids) = 2
    /\ odooBoms[1].operation_ids[1].time_cycle_manual = Rat(60, 60)
    /\ odooBoms[1].operation_ids[2].time_cycle_manual = Rat(120, 60)

\* C22: a resolved component gets an operation exactly when it has a
\* service, the service is in the batched service result and one of its
\* duration rules is in the batched rule result; without one the component
\* keeps its BOM line and the loop goes on, so that there are never more
\* operations than BOM lines.
C22_OperationOrOmission ==
    /\ [k \in 1..Len(bom_operations) |-> bom_operations[k].name]
          = [k \in 1..Len(OperatedUpTo(bomIndex)) |->
                ServiceOf(OperatedUpTo(bomIndex)[k]).x_name]
    /\ Len(bom_components) = Len(ResolvedUpTo(bomIndex))
    /\ Len(bom_operations) <= Len(bom_components)
    /\ bomPc = "loop" => bomIndex <= Len(components)
    /\ bomPc = "done" =>
          /\ Len(odooBoms[1].bom_line_ids) = Len(ResolvedUpTo(Len(components)))
          /\ Len(odooBoms[1].operation_ids) = Len(OperatedUpTo(Len(components)))
          /\ bomReturn[4] = Len(odooBoms[1].operation_ids)

\* a component whose service is not in the batch and one whose rule is not:
\* two BOM lines, no operation
C22_Witness ==
    /\ bomPc = "done"
    /\ Len(components) = 2
    /\ components[1].reference = "MT"
    /\ components[2].reference = "BK"
    /\ Len(odooBoms[1].bom_line_ids) = 2
    /\ odooBoms[1].operation_ids = << >>

\* C23: every product create_product_and_bom makes carries, from before its
\* BOM is created, the routes 1 (make to order) and 4 (manufacture) and no
\* other, whatever the components, the size and the name of the call.
C23_RoutesFixed ==
    /\ \A b \in 1..Len(odooBoms) :
          /\ odooBoms[b].routes_at_creation = {1, 4}
          /\ odooProducts[odooBoms[b].product_tmpl_id].route_ids = {1, 4}
    /\ bomPc \in {"create_bom", "done"} =>
          \A p \in 1..Len(odooProducts) : odooProducts[p].route_ids = {1, 4}

\* a product with its BOM, made for a request without components
C23_Witness ==
    /\ bomPc = "done"
    /\ components = << >>
    /\ Len(odooBoms) = 1
    /\ odooBoms[1].routes_at_creation = {1, 4}
    /\ odooProducts[1].route_ids = {1, 4}

(***************************************************************************)
(* Retries                                                                 *)
(***************************************************************************)
\* the invocations of spreadsheet generation so far all failed
AllFailedSoFar(n) == \A k \in 1..n : ~retry_input.generates[k]

RetryDiscipline ==
    /\ generate_calls <= 3
    /\ retryPc = "attempt" =>
          /\ generate_calls = attempt
          /\ sleeps = attempt
          /\ attempt < 3
          /\ AllFailedSoFar(generate_calls)
    /\ worker_return.tag = "returned" =>
          /\ generate_calls >= 1
          /\ retry_input.generates[generate_calls]
          /\ AllFailedSoFar(generate_calls - 1)
    /\ worker_return.tag = "raised" =>
          \/ ~retry_input.connects /\ generate_calls = 0
          \/ generate_calls = 3 /\ AllFailedSoFar(3)
    /\ retryPc = "done" <=> worker_return.tag # "none"

C30_ReportedMeansStored ==
    route_response.status = "success" =>
        \A i \in 1..Len(route_response.additional_csvs) :
            LET info == route_response.additional_csvs[i]
            IN  /\ \E e \in config_fields :
                      /\ e.field = info.field
                      /\ e.value = << "base64:" >> \o all_pricelist_csvs[i].csv_content
                /\ \E e \in config_fields :
                      /\ e.field = info.field \o << "_filename" >>
                      /\ e.value = info.filename

\* ---- claims about the template lookup
\* C25: the template lookup holds no BOM that is bound to a product (such a
\* BOM belongs to the product lookup only), so that a line never gets, from
\* the template lookup, a BOM bound to another variant of its template:
\* the BOM a line is processed with is bound to the line's product or to no
\* product.
C25_TemplateLookupUnbound ==
    Submitted =>
      /\ \A t \in DOMAIN bom_by_template : ~Truthy(bom_by_template[t].product_id)
      /\ \A l \in Lines :
            HasCopied(l) =>
              \E b \in CatalogBoms :
                  /\ CopiedFrom(l, b)
                  /\ \/ ~Truthy(b.product_id)
                     \/ b.product_id.items[1] = LineData(l).product_id.items[1]

\* ---- claims about the two duration lookups
\* C26: the index lookup and the scanning lookup agree: for every rule list,
\* every (non-empty) service name and every query quantity,
\* lookup_service_duration_fast(service, q, build_duration_lookup(rules))
\* equals lookup_service_duration(service, q, rules).
C26_FastEqualsScan ==
    (pricePc = "scan" /\ query[1] # "") => fast_result = scan_result

\* ---- claims about what a line leaves behind
Skipped(l) == Returned(l) /\ ResultOf(l).status = "skipped"

\* nothing was generated for line l and its order line is as it was read
Untouched(l) ==
    /\ lineLocals[l].product_name = << >>
    /\ lineLocals[l].new_product_id = 0
    /\ lineLocals[l].bom_id = 0
    /\ order_lines[l].product_id = LineData(l).product_id
    /\ order_lines[l].product_uom_qty = LineData(l).product_uom_qty
    /\ order_lines[l].price_unit = LineData(l).price_unit
    /\ order_lines[l].name = LineData(l).name

\* the step in which line l returns a skipped result
SkipStep(l) ==
    /\ linePc[l] = "pending"
    /\ linePc'[l] = "returned"
    /\ lineReturns'[l][1][1].status = "skipped"

GeneratedFor(l) ==
    { i \in 1..Len(odooProducts) :
        odooProducts[i].id = order_lines[l].product_id.items[1] }

HasBomOf(i) ==
    \E b \in 1..Len(odooBoms) :
        odooBoms[b].product_tmpl_id = odooProducts[i].product_tmpl_id

\* C28: the order line is rewritten to the new product only after the
\* product, its routes and its BOM exist: in every reachable state an order
\* line that points at a generated product points at a product that has its
\* routes and a BOM, and a line whose result is 'success' has had its order
\* line rewritten to the product and the description of that result.
C28_RewrittenAfterBom ==
    \A l \in 1..Len(order_lines) :
        /\ \A i \in GeneratedFor(l) :
              /\ odooProducts[i].route_ids = {1, 4}
              /\ HasBomOf(i)
        /\ (Returned(l) /\ ResultOf(l).status = "success") =>
              /\ order_lines[l].product_id.items[1] = ResultOf(l).new_product_id
              /\ GeneratedFor(l) # {}
              /\ order_lines[l].name = lineLocals[l].new_order_line_description
              /\ \E b \in 1..Len(odooBoms) : odooBoms[b].id = ResultOf(l).bom_id

\* a line has returned success and its order line points at the generated
\* product, which has a BOM
C28_Witness ==
    \E l \in 1..Len(order_lines) :
        /\ Returned(l)
        /\ ResultOf(l).status = "success"
        /\ \E i \in GeneratedFor(l) : HasBomOf(i)
        /\ order_lines[l].product_id # LineData(l).product_id

\* ---- claims about the collection of the workers' results
PoolLeft == Submitted /\ mainPc \notin {"prefetch", "pool"}

\* C29: whatever the order in which the workers complete, the results are
\* placed by line index: once the pool is left every entry of
\* parallel_results is filled, entry i is what the worker of line i
\* returned and carries the id of order line i, entry i of processed_lines
\* is the result of line i, and an entry once stored is never overwritten.
C29_ResultsByLineIndex ==
    /\ [](PoolLeft =>
            /\ DOMAIN parallel_results = Lines
            /\ \A i \in Lines :
                  /\ parallel_results[i] # << >>
                  /\ parallel_results[i] = lineReturns[i][1]
                  /\ parallel_results[i][1].order_line_id = order_lines[i].id
            /\ Len(processed_lines) <= Len(order_lines)
            /\ (mainPc \in {"cost", "respond"} =>
                  Len(processed_lines) = Len(order_lines))
            /\ \A i \in 1..Len(processed_lines) :
                  /\ processed_lines[i].order_line_id = order_lines[i].id
                  /\ processed_lines[i].status = parallel_results[i][1].status
                  /\ IF processed_lines[i].status = "success"
                     THEN processed_lines[i].new_product_id =
                              parallel_results[i][1].new_product_id
                     ELSE processed_lines[i] = parallel_results[i][1])
    /\ [][\A i \in DOMAIN parallel_results :
            parallel_results[i] # << >> =>
                parallel_results'[i] = parallel_results[i]]_vars

\* two lines were rewritten, the second one described before the first, and
\* the two results are in the order of the lines
C29_Witness ==
    /\ PoolLeft
    /\ mainPc = "respond"
    /\ Len(order_lines) = 2
    /\ Len(processed_lines) = 2
    /\ processed_lines[1].order_line_id = order_lines[1].id
    /\ processed_lines[2].order_line_id = order_lines[2].id
    /\ processed_lines[1].status = "success"
    /\ processed_lines[2].status = "success"
    /\ \E a, b \in 1..Len(request_log) :
          /\ a < b
          /\ request_log[a].thread = 2
          /\ request_log[b].thread = 1

====
